---------------------------- MODULE Spec2Model ----------------------------
(***************************************************************************)
(* A model of the mechanisms of the aiadvent relay:                        *)
(*                                                                         *)
(*   - retry.DoHTTP (internal/retry/retry.go), the retry loop with its     *)
(*     backoff, jitter and Retry-After arithmetic;  specification          *)
(*     SpecRetry.                                                          *)
(*   - the admission controller of the Telegram webhook handler            *)
(*     (internal/telegram/webhook.go): ServeHTTP, processAsync,            *)
(*     processCallbackAsync, acquireSlot, releaseSlot and the handlers a   *)
(*     unit runs;  specification SpecAdmit.                                *)
(*   - the modes of a user's session (ask, ask_json, dialog, solve, the    *)
(*     pending login) and the handlers that set, serve and end them, with  *)
(*     one update processed at a time;  specification SpecModes.           *)
(*   - the dialog service and its store with updates of one user           *)
(*     processed side by side;  specification SpecDialog.                  *)
(*   - panics, errors and deadlines of a unit and of the goroutine of the  *)
(*     thinking animation;  specification SpecFaults.                      *)
(*   - splitMessage, the dialog store, the auth service and                *)
(*     DialogService.Chat taken on their own;  specifications SpecSplit,   *)
(*     SpecStore, SpecAuth and SpecChat.                                   *)
(*   - the authorization check of the handlers and the choice of a model;  *)
(*     specifications SpecGate and SpecModel.                              *)
(*   - the session map h.state with its mutex h.stateMu, and the retry     *)
(*     buttons of /solve;  specifications SpecLock and SpecSolve.          *)
(*   - the slots of h.sem, popPending and the setters of the session map   *)
(*     with units side by side;  specifications SpecSlots, SpecPending     *)
(*     and SpecSetters.                                                    *)
(*   - DialogService.Chat beside ReplayCreatePlan on one dialog, and the   *)
(*     goroutine of the thinking animation beside the last edit of its     *)
(*     handler;  specifications SpecReplay and SpecAnimation.              *)
(*                                                                         *)
(* Durations.  time.Duration is a signed integer counting ticks.  The      *)
(* program's tick is a nanosecond and its integers are 64 bits wide; here  *)
(* a tick is a millisecond (time.Second is 1000 ticks, the defaults are    *)
(* 500 and 8000 ticks) and integers are IntBits wide, so that the values   *)
(* stay inside the range of the model checker's integers.  Conversions     *)
(* from float64 to Duration truncate toward zero to a whole tick, as they  *)
(* do in the program.  Multiplier is a ratio num/den, JitterFraction is    *)
(* counted in hundredths and Rand() returns k/RandDen with k < RandDen.    *)
(* Response bodies (and the snippet taken from them) are left out.         *)
(***************************************************************************)
EXTENDS Integers, Sequences, FiniteSets, TLC

VARIABLES
    \* ---- retry.DoHTTP ----
    rpc,         \* where DoHTTP is: "idle", "do", "sleep", "done"
    policy,      \* the Policy argument; after the call, withDefaults of it
    ctxErr,      \* ctx.Err(): "none", "canceled", "deadline"
    attempt,     \* the loop variable
    calls,       \* how often do(ctx) has been invoked
    nSleeps,     \* how often policy.Sleep has been invoked
    lastOutcome, \* what the last do(ctx) returned
    lastSleep,   \* the last computed wait (the arguments of logRetry and Sleep)
    backoffLog,  \* the last two results of backoffDelay, each with its attempt index
    result,      \* what DoHTTP returned
    allTransient,\* history: every outcome so far was a transient one
    cancelAt,    \* history: rpc and calls at the moment ctx was cancelled
    \* ---- telegram.WebhookHandler ----
    semCap,      \* cap(h.sem), fixed by NewWebhookHandler
    sem,         \* len(h.sem): the slots taken
    sendq,       \* the updates whose acquireSlot is blocked in h.sem <- struct{}{}
    arrived,     \* how many updates the HTTP server has passed to ServeHTTP
    upd,         \* the Update of each request
    upc,         \* where the processing of each update is
    todo,        \* the calls the unit of an update has still to make
    state,       \* h.state, the session map (under h.stateMu)
    sessions,    \* the auth.Store: the users that have a session
    hist,        \* history of each update: what was done on its behalf
    crashed,     \* the process has been terminated by a panic no one recovered
    dialogs,     \* the DialogStore: the dialog ids that have a history
    clock,       \* the last reading of time.Now().UnixNano()
    dialogService, \* h.dialogService is not nil
    animations,  \* the updates whose thinking animation goroutine runs
    expired,     \* the updates whose processing deadline has passed
    \* ---- functions and packages taken on their own ----
    split,       \* a call of splitMessage: its arguments, its locals, its result
    store,       \* a MemoryDialogStore, the clock, and what its last call did
    auth,        \* an auth.Service with its Store, the clock, and what its last call did
    chat,        \* the calls of DialogService.Chat under way, one per caller
    mu,          \* h.state with h.stateMu, and the goroutines that use them
    bot          \* a thinking message at Telegram, and the goroutines that edit it

retryVars == <<rpc, policy, ctxErr, attempt, calls, nSleeps, lastOutcome,
               lastSleep, backoffLog, result, allTransient, cancelAt>>

modeVars == <<dialogs, clock, dialogService, animations, expired>>

admitVars == <<semCap, sem, sendq, arrived, upd, upc, todo, state, sessions, hist,
               crashed, modeVars>>

libVars == <<split, store, auth, chat, mu, bot>>

\* what splitMessage leaves alone, and what the methods of MemoryDialogStore do
splitElse == <<retryVars, admitVars, store, auth, chat, mu, bot>>
storeElse == <<retryVars, admitVars, split, auth, chat, mu, bot>>
authElse == <<retryVars, admitVars, split, store, chat, mu, bot>>
chatElse == <<retryVars, admitVars, split, auth, mu, bot>>
muElse == <<retryVars, admitVars, split, store, auth, chat, bot>>
botElse == <<retryVars, admitVars, split, store, auth, chat, mu>>

vars == <<retryVars, admitVars, libVars>>

-----------------------------------------------------------------------------
(* Bounds *)

\* the width of Go's int and of time.Duration (64 in the program)
IntBits == 16

\* Rand() returns one of 0/RandDen .. (RandDen-1)/RandDen
RandDen == 4

\* the largest MaxAttempts among the explicit policies
PolicyAttempts == 3

\* the number of updates Telegram delivers
NEvents == 3

\* the largest WebhookDeps.MaxWorkers
MaxWorkersMax == 2

-----------------------------------------------------------------------------
(* Integers of Go's width *)

RECURSIVE Pow(_, _)
Pow(b, e) == IF e = 0 THEN 1 ELSE b * Pow(b, e - 1)

MaxInt == Pow(2, IntBits - 1) - 1
MinInt == -Pow(2, IntBits - 1)

\* two's complement wrap-around of an integer operation
Wrap(x) == ((x - MinInt) % Pow(2, IntBits)) + MinInt

\* conversion float64 -> integer: truncation toward zero of num/den, den > 0
Trunc(num, den) == IF num >= 0 THEN num \div den ELSE -((-num) \div den)

-----------------------------------------------------------------------------
(* retry.go: constants and Policy *)

defaultBaseDelay == 500
defaultMaxDelay == 8000
defaultMultiplier == [num |-> 2, den |-> 1]
defaultMaxAttempts == 6
defaultJitterFraction == 30

\* time.Second in ticks
Second == 1000

\* The Policy values DoHTTP is called with.  The explicit fields of the
\* first are those of retry_test.go; a zero field asks for the default.
Policies ==
    { [BaseDelay |-> 500, MaxDelay |-> 8000, Multiplier |-> [num |-> 2, den |-> 1],
       MaxAttempts |-> n, JitterFraction |-> 30] : n \in 1..PolicyAttempts }
    \cup
    { [BaseDelay |-> 0, MaxDelay |-> 0, Multiplier |-> [num |-> 0, den |-> 1],
       MaxAttempts |-> 0, JitterFraction |-> 0],
      [BaseDelay |-> 5, MaxDelay |-> 10, Multiplier |-> [num |-> 3, den |-> 2],
       MaxAttempts |-> PolicyAttempts + 1, JitterFraction |-> 30],
      [BaseDelay |-> 500, MaxDelay |-> 8000, Multiplier |-> [num |-> 1, den |-> 2],
       MaxAttempts |-> PolicyAttempts, JitterFraction |-> 30],
      [BaseDelay |-> 500, MaxDelay |-> 8000, Multiplier |-> [num |-> 2, den |-> 1],
       MaxAttempts |-> PolicyAttempts, JitterFraction |-> 150],
      [BaseDelay |-> 500, MaxDelay |-> 8000, Multiplier |-> [num |-> 2, den |-> 1],
       MaxAttempts |-> -1, JitterFraction |-> 30] }

withDefaults(p) ==
    [ BaseDelay      |-> IF p.BaseDelay = 0 THEN defaultBaseDelay ELSE p.BaseDelay,
      MaxDelay       |-> IF p.MaxDelay = 0 THEN defaultMaxDelay ELSE p.MaxDelay,
      Multiplier     |-> IF p.Multiplier.num = 0 THEN defaultMultiplier ELSE p.Multiplier,
      MaxAttempts    |-> IF p.MaxAttempts = 0 THEN defaultMaxAttempts ELSE p.MaxAttempts,
      JitterFraction |-> IF p.JitterFraction = 0 THEN defaultJitterFraction
                                                 ELSE p.JitterFraction ]

-----------------------------------------------------------------------------
(* retry.go: the delay arithmetic *)

minDuration(a, b) == IF a <= b THEN a ELSE b

\* a changed backoffDelay: the cap at MaxDelay is missing
backoffDelay_noCap(p, retryIndex) ==
    LET idx == IF retryIndex < 1 THEN 1 ELSE retryIndex
    IN  Trunc(p.BaseDelay * Pow(p.Multiplier.num, idx - 1), Pow(p.Multiplier.den, idx - 1))

\* float64(BaseDelay) * math.Pow(Multiplier, retryIndex-1), capped, truncated
backoffDelay(p, retryIndex) ==
    LET idx == IF retryIndex < 1 THEN 1 ELSE retryIndex
        num == p.BaseDelay * Pow(p.Multiplier.num, idx - 1)
        den == Pow(p.Multiplier.den, idx - 1)
    IN  IF num > p.MaxDelay * den THEN p.MaxDelay ELSE Trunc(num, den)

\* a changed jitterDelay: factor = 1 + Rand*2*JitterFraction (the -1 is missing)
jitterDelay_oneSided(p, delay, k) ==
    IF delay <= 0 \/ p.JitterFraction <= 0
    THEN delay
    ELSE Trunc(delay * (100 * RandDen + 2 * k * p.JitterFraction), 100 * RandDen)

\* k/RandDen is what p.Rand() returns;
\* factor = 1 + (Rand*2 - 1) * JitterFraction = facNum / facDen
jitterDelay(p, delay, k) ==
    IF delay <= 0 \/ p.JitterFraction <= 0
    THEN delay
    ELSE LET facNum == 100 * RandDen + (2 * k - RandDen) * p.JitterFraction
             facDen == 100 * RandDen
         IN  IF delay * facNum < 0 THEN 0 ELSE Trunc(delay * facNum, facDen)

nextDelay(p, retryIndex, retryAfter, usedRetryAfter, k) ==
    IF usedRetryAfter
    THEN minDuration(retryAfter, p.MaxDelay)
    ELSE jitterDelay(p, backoffDelay(p, retryIndex), k)

-----------------------------------------------------------------------------
(* retry.go: the Retry-After header *)

\* A header value is a string, held as a sequence of characters, or an
\* HTTP-date, held as the second it names.
Digits == {"0", "1", "2", "3", "4", "5", "6", "7", "8", "9"}

DigitVal(c) ==
    CASE c = "0" -> 0 [] c = "1" -> 1 [] c = "2" -> 2 [] c = "3" -> 3
      [] c = "4" -> 4 [] c = "5" -> 5 [] c = "6" -> 6 [] c = "7" -> 7
      [] c = "8" -> 8 [] c = "9" -> 9

\* unicode.IsSpace, for the characters the texts are made of
IsSpace(c) == c \in {" ", "\n", "\t"}

RECURSIVE TrimLeft(_)
TrimLeft(s) == IF s # <<>> /\ IsSpace(Head(s)) THEN TrimLeft(Tail(s)) ELSE s

RECURSIVE TrimRight(_)
TrimRight(s) ==
    IF s # <<>> /\ IsSpace(s[Len(s)]) THEN TrimRight(SubSeq(s, 1, Len(s) - 1)) ELSE s

\* strings.TrimSpace
TrimSpace(s) == TrimRight(TrimLeft(s))

RECURSIVE DecimalValue(_)
DecimalValue(s) ==
    IF s = <<>> THEN 0
    ELSE 10 * DecimalValue(SubSeq(s, 1, Len(s) - 1)) + DigitVal(s[Len(s)])

\* strconv.Atoi: an optional sign and at least one digit, within the range of int
Atoi(s) ==
    LET signed == s # <<>> /\ s[1] \in {"+", "-"}
        digits == IF signed THEN Tail(s) ELSE s
        wellFormed == digits # <<>> /\ \A i \in 1..Len(digits) : digits[i] \in Digits
        value == IF signed /\ s[1] = "-" THEN -DecimalValue(digits)
                                        ELSE DecimalValue(digits)
    IN  IF wellFormed /\ value >= MinInt /\ value <= MaxInt
        THEN [ok |-> TRUE, value |-> value]
        ELSE [ok |-> FALSE, value |-> 0]

NoHeader == [form |-> "absent", text |-> <<>>, sec |-> 0]
TextHeader(t) == [form |-> "text", text |-> t, sec |-> 0]
DateHeader(n) == [form |-> "date", text |-> <<>>, sec |-> n]

\* the values of Retry-After the server sends
Headers ==
    { NoHeader, TextHeader(<<"2">>), TextHeader(<<" ", "2", " ">>),
      TextHeader(<<"-", "1">>), TextHeader(<<"9", "9">>), TextHeader(<<"x">>),
      DateHeader(9), DateHeader(12), DateHeader(30) }

\* what policy.Now() returns, in ticks
NowTicks == {10000, 10500}

\* http.ParseTime succeeds on an HTTP-date only
parseRetryAfter(header, now) ==
    LET value == TrimSpace(header.text)
        seconds == Atoi(value)
    IN  IF header.form = "absent" \/ (header.form = "text" /\ value = <<>>)
        THEN [delay |-> 0, used |-> FALSE]
        ELSE IF header.form = "text" /\ seconds.ok
        THEN IF seconds.value < 0
             THEN [delay |-> 0, used |-> TRUE]
             ELSE [delay |-> Wrap(seconds.value * Second), used |-> TRUE]
        ELSE IF header.form = "date"
        THEN LET delay == header.sec * Second - now
             IN  [delay |-> IF delay < 0 THEN 0 ELSE delay, used |-> TRUE]
        ELSE [delay |-> 0, used |-> FALSE]

-----------------------------------------------------------------------------
(* retry.go: classification *)

RetryableStatuses == {408, 429, 500, 502, 503, 504}

\* a changed isRetryableStatus: 408 is missing from the switch
isRetryableStatus_no408(status) == status \in RetryableStatuses \ {408}

\* a changed isRetryableStatus: every status from 400 on is retried
isRetryableStatus_from400(status) == status >= 400

isRetryableStatus(status) == status \in RetryableStatuses

\* The errors do(ctx) returns: one that wraps context.Canceled or
\* context.DeadlineExceeded, a net.Error with Timeout() or Temporary(), io.EOF,
\* io.ErrUnexpectedEOF, syscall.ECONNRESET, one whose text holds "connection
\* reset", and any other (a refused connection, a TLS failure).
NetErrors == {"canceled", "deadline", "timeout", "temporary", "eof",
              "unexpected_eof", "econnreset", "reset_text", "other"}

\* a changed isRetryableNetErr: ctx.Err() is not looked at
isRetryableNetErr_noCtx(ctx, err) ==
    err \in {"deadline", "timeout", "temporary", "eof", "unexpected_eof",
             "econnreset", "reset_text"}

\* a changed isRetryableNetErr: an error it does not know is retried
isRetryableNetErr_unknownToo(ctx, err) ==
    ctx = "none" /\ err # "canceled"

isRetryableNetErr(ctx, err) ==
    IF ctx # "none" THEN FALSE
    ELSE IF err = "canceled" THEN FALSE
    ELSE IF err = "deadline" /\ ctx = "none" THEN TRUE
    ELSE IF err \in {"timeout", "temporary"} THEN TRUE
    ELSE IF err \in {"eof", "unexpected_eof"} THEN TRUE
    ELSE IF err = "econnreset" THEN TRUE
    ELSE err = "reset_text"

-----------------------------------------------------------------------------
(* retry.go: DoHTTP *)

Statuses == {200, 400, 408, 429, 500, 502, 503, 504}

NoError == [kind |-> "nil"]
CtxError(c) == [kind |-> "ctx", which |-> c]
NetError(e) == [kind |-> "net", err |-> e]
HTTPStatusError(s) == [kind |-> "status", status |-> s]
ExhaustedError(cause, attempts) ==
    [kind |-> "exhausted", cause |-> cause, attempts |-> attempts]
NilResponseError == [kind |-> "text", text |-> "nil response from http client"]
PlainExhausted == [kind |-> "text", text |-> "retry attempts exhausted"]

NoResponse == [kind |-> "none", status |-> 0, header |-> NoHeader, err |-> "nil"]

\* what one call of do(ctx) returns: a response, an error, or neither
Outcomes ==
    { [kind |-> "resp", status |-> s, header |-> h, err |-> "nil"] :
        s \in Statuses, h \in Headers }
    \cup { [kind |-> "err", status |-> 0, header |-> NoHeader, err |-> e] :
             e \in NetErrors }
    \cup { [kind |-> "nilresp", status |-> 0, header |-> NoHeader, err |-> "nil"] }

\* the *http.Response of an outcome (nil unless it is a response)
RespOf(o) == IF o.kind = "resp" THEN o ELSE NoResponse

NoSleep == [attempt |-> 0, now |-> 0, used |-> FALSE, backoff |-> 0, delay |-> 0]

NoBackoff == [attempt |-> 0, d |-> 0]

NoCancel == [rpc |-> "none", calls |-> 0]

\* no WebhookHandler has been constructed
NoWebhook ==
    /\ semCap = 0
    /\ sem = 0
    /\ sendq = <<>>
    /\ arrived = 0
    /\ upd = <<>>
    /\ upc = <<>>
    /\ todo = <<>>
    /\ state = <<>>
    /\ sessions = {}
    /\ hist = <<>>
    /\ crashed = FALSE
    /\ dialogs = {}
    /\ clock = 0
    /\ dialogService = FALSE
    /\ animations = {}
    /\ expired = {}

\* DoHTTP has not been called
RetryIdle ==
    /\ rpc = "idle"
    /\ ctxErr = "none"
    /\ attempt = 0
    /\ calls = 0
    /\ nSleeps = 0
    /\ lastOutcome = NoResponse
    /\ lastSleep = NoSleep
    /\ backoffLog = [prev |-> NoBackoff, last |-> NoBackoff]
    /\ result = [resp |-> NoResponse, err |-> NoError]
    /\ allTransient = TRUE
    /\ cancelAt = NoCancel

\* no call of splitMessage is under way
NoSplit == [pc |-> "idle", text |-> <<>>, maxLength |-> 0, remaining |-> <<>>, parts |-> <<>>]

\* the functions and packages taken on their own are not in use
\* no MemoryDialogStore has been made
NoStore == [ttl |-> 0, now |-> 0, dialogs |-> <<>>, called |-> <<>>, last |-> <<>>]

\* no auth.Service has been made
NoAuth == [impl |-> "", ttl |-> 0, now |-> 0, sessions |-> <<>>, last |-> <<>>]

\* no thinking message has been sent
NoBot == [from |-> "", pc |-> "idle", outcome |-> "", ctx |-> FALSE, go |-> "none", i |-> 0,
          ticks |-> 0, wire |-> {}, text |-> [kind |-> "none", i |-> 0], final |-> FALSE]

\* no handler with a session map has been made
NoMutex == [holder |-> 0, state |-> <<>>, units |-> <<>>, last |-> <<>>, bare |-> FALSE]

NoLibrary ==
    /\ split = NoSplit
    /\ store = NoStore
    /\ auth = NoAuth
    /\ bot = NoBot
    /\ chat = <<>>
    /\ mu = NoMutex

InitRetry ==
    /\ RetryIdle
    /\ NoLibrary
    /\ policy \in Policies
    /\ NoWebhook

\* return resp, body, err
Return(resp, err) ==
    /\ rpc' = "done"
    /\ result' = [resp |-> resp, err |-> err]

\* a changed loop head: the loop condition is attempt < MaxAttempts
LoopHead_offByOne(p, a) ==
    /\ attempt' = a
    /\ IF a < p.MaxAttempts
       THEN IF ctxErr # "none"
            THEN Return(NoResponse, CtxError(ctxErr)) /\ calls' = calls
            ELSE rpc' = "do" /\ calls' = calls + 1 /\ result' = result
       ELSE Return(NoResponse, PlainExhausted) /\ calls' = calls

\* a changed loop head: ctx.Err() is not looked at
LoopHead_noCtxCheck(p, a) ==
    /\ attempt' = a
    /\ IF a <= p.MaxAttempts
       THEN rpc' = "do" /\ calls' = calls + 1 /\ result' = result
       ELSE Return(NoResponse, PlainExhausted) /\ calls' = calls

\* a changed loop head: ctx.Err() is looked at from the second turn on
LoopHead_noFirstCheck(p, a) ==
    /\ attempt' = a
    /\ IF a <= p.MaxAttempts
       THEN IF ctxErr # "none" /\ a > 1
            THEN Return(NoResponse, CtxError(ctxErr)) /\ calls' = calls
            ELSE rpc' = "do" /\ calls' = calls + 1 /\ result' = result
       ELSE Return(NoResponse, PlainExhausted) /\ calls' = calls

\* The head of the loop for attempt index a under policy p: the loop
\* condition, the ctx.Err() check and the call of do(ctx).
LoopHead(p, a) ==
    /\ attempt' = a
    /\ IF a <= p.MaxAttempts
       THEN IF ctxErr # "none"
            THEN Return(NoResponse, CtxError(ctxErr)) /\ calls' = calls
            ELSE rpc' = "do" /\ calls' = calls + 1 /\ result' = result
       ELSE Return(NoResponse, PlainExhausted) /\ calls' = calls

\* DoHTTP is entered: withDefaults, then the first turn of the loop
Call ==
    /\ rpc = "idle"
    /\ policy' = withDefaults(policy)
    /\ LoopHead(withDefaults(policy), 1)
    /\ UNCHANGED <<ctxErr, nSleeps, lastOutcome, lastSleep, backoffLog,
                   allTransient, cancelAt, admitVars, libVars>>

\* the claim's notion of a transient outcome (history only)
IsTransient(o) ==
    \/ o.kind = "resp" /\ o.status \in {408, 429, 500, 502, 503, 504}
    \/ o.kind = "err" /\ o.err \in {"deadline", "timeout", "temporary", "eof",
                                    "unexpected_eof", "econnreset", "reset_text"}

\* logRetry and the call of policy.Sleep(ctx, delay)
StartSleep(rec) ==
    /\ rpc' = "sleep"
    /\ nSleeps' = nSleeps + 1
    /\ lastSleep' = rec
    /\ backoffLog' = IF rec.used THEN backoffLog
                     ELSE [prev |-> backoffLog.last,
                           last |-> [attempt |-> rec.attempt, d |-> rec.backoff]]
    /\ UNCHANGED result

\* do(ctx) returns o; k/RandDen is the next Rand(), now the next Now()
DoReturn(o, k, now) ==
    /\ rpc = "do"
    /\ lastOutcome' = o
    /\ allTransient' = (allTransient /\ IsTransient(o))
    /\ UNCHANGED <<policy, ctxErr, attempt, calls, cancelAt, admitVars, libVars>>
    /\ IF o.kind = "err"
       THEN IF ~isRetryableNetErr(ctxErr, o.err) \/ attempt = policy.MaxAttempts
            THEN /\ IF attempt = policy.MaxAttempts /\ isRetryableNetErr(ctxErr, o.err)
                    THEN Return(RespOf(o), ExhaustedError(NetError(o.err), attempt))
                    ELSE Return(RespOf(o), NetError(o.err))
                 /\ UNCHANGED <<nSleeps, lastSleep, backoffLog>>
            ELSE StartSleep([attempt |-> attempt, now |-> 0, used |-> FALSE,
                             backoff |-> backoffDelay(policy, attempt),
                             delay |-> jitterDelay(policy,
                                                   backoffDelay(policy, attempt), k)])
       ELSE IF o.kind = "nilresp"
       THEN /\ Return(NoResponse, NilResponseError)
            /\ UNCHANGED <<nSleeps, lastSleep, backoffLog>>
       ELSE IF isRetryableStatus(o.status)
       THEN IF attempt = policy.MaxAttempts
            THEN /\ Return(o, ExhaustedError(HTTPStatusError(o.status), attempt))
                 /\ UNCHANGED <<nSleeps, lastSleep, backoffLog>>
            ELSE LET ra == parseRetryAfter(o.header, now)
                 IN  StartSleep([attempt |-> attempt,
                                 now |-> IF o.header.form = "date" THEN now ELSE 0,
                                 used |-> ra.used,
                                 backoff |-> IF ra.used THEN 0
                                             ELSE backoffDelay(policy, attempt),
                                 delay |-> nextDelay(policy, attempt, ra.delay,
                                                     ra.used, k)])
       ELSE /\ Return(o, NoError)
            /\ UNCHANGED <<nSleeps, lastSleep, backoffLog>>

\* defaultSleep returns nil (d <= 0, or the timer fired): continue with the
\* next attempt index; resp, err and delay of this turn go out of scope
SleepTimer ==
    /\ rpc = "sleep"
    /\ LoopHead(policy, attempt + 1)
    /\ lastOutcome' = NoResponse
    /\ lastSleep' = NoSleep
    /\ UNCHANGED <<policy, ctxErr, nSleeps, backoffLog, allTransient, cancelAt,
                   admitVars, libVars>>

\* defaultSleep returns ctx.Err(): the select found ctx.Done() ready
SleepCancelled ==
    /\ rpc = "sleep"
    /\ lastSleep.delay > 0
    /\ ctxErr # "none"
    /\ Return(NoResponse, CtxError(ctxErr))
    /\ UNCHANGED <<policy, ctxErr, attempt, calls, nSleeps, lastOutcome, lastSleep,
                   backoffLog, allTransient, cancelAt, admitVars, libVars>>

\* the caller cancels ctx, or its deadline passes
Cancel(c) ==
    /\ ctxErr = "none"
    /\ rpc # "done"
    /\ ctxErr' = c
    /\ cancelAt' = [rpc |-> rpc, calls |-> calls]
    /\ UNCHANGED <<rpc, policy, attempt, calls, nSleeps, lastOutcome, lastSleep,
                   backoffLog, result, allTransient, admitVars, libVars>>

NextRetry ==
    \/ Call
    \/ \E o \in Outcomes, k \in 0..(RandDen - 1), now \in NowTicks : DoReturn(o, k, now)
    \/ SleepTimer
    \/ SleepCancelled
    \/ \E c \in {"canceled", "deadline"} : Cancel(c)

SpecRetry == InitRetry /\ [][NextRetry]_vars

-----------------------------------------------------------------------------
(* Properties of retry.DoHTTP *)

\* the error DoHTTP wraps when outcome o was transient
CauseOf(o) == IF o.kind = "err" THEN NetError(o.err) ELSE HTTPStatusError(o.status)

\* C1: when DoHTTP has returned, the context was never cancelled and every
\* attempt made ended in a transient outcome, then the error is an
\* ExhaustedError with Attempts = MaxAttempts whose Cause is the last
\* failure, do was invoked MaxAttempts times and Sleep MaxAttempts-1 times.
C1_ExhaustedAfterMaxAttempts ==
    (rpc = "done" /\ ctxErr = "none" /\ allTransient /\ calls >= 1)
    => /\ result.err = ExhaustedError(CauseOf(lastOutcome), policy.MaxAttempts)
       /\ calls = policy.MaxAttempts
       /\ nSleeps = policy.MaxAttempts - 1

C1_Witness ==
    /\ rpc = "done" /\ ctxErr = "none" /\ allTransient
    /\ calls = 3 /\ nSleeps = 2
    /\ result.err.kind = "exhausted" /\ result.err.attempts = 3

\* C2: a retryable status on an attempt before the last one is followed by a
\* wait, and a wait that ends with the context not cancelled is followed by
\* the next call of do; DoHTTP gives up on a retryable status only on the
\* last attempt or after a cancellation; a later 200 is returned with a nil
\* error, after which nothing more happens.
C2_RetryableStatusRetried ==
    /\ []( (rpc = "done" /\ cancelAt = NoCancel /\ lastOutcome.kind = "resp"
            /\ lastOutcome.status \in {408, 429, 500, 502, 503, 504})
           => attempt = policy.MaxAttempts )
    /\ [][ /\ (rpc = "do" /\ lastOutcome'.kind = "resp"
               /\ lastOutcome'.status \in {408, 429, 500, 502, 503, 504}
               /\ attempt < policy.MaxAttempts)
              => (rpc' = "sleep" /\ nSleeps' = nSleeps + 1)
           /\ (rpc = "sleep" /\ rpc' # "sleep" /\ ctxErr' = "none")
              => (rpc' = "do" /\ calls' = calls + 1 /\ attempt' = attempt + 1)
           /\ (rpc = "do" /\ attempt > 1 /\ lastOutcome'.kind = "resp"
               /\ lastOutcome'.status = 200)
              => (rpc' = "done" /\ result' = [resp |-> lastOutcome', err |-> NoError])
           /\ rpc = "done" => (rpc' = "done" /\ calls' = calls /\ result' = result)
         ]_vars

C2_Witness ==
    /\ rpc = "done" /\ cancelAt = NoCancel
    /\ calls = 3 /\ nSleeps = 2
    /\ result.resp.status = 200 /\ result.err = NoError

\* C3: a response whose status is not in the retryable set ends DoHTTP at
\* once: it is returned with a nil error, Sleep is not called for it and do
\* is not called again.
C3_PermanentStatusReturned ==
    [][ /\ (rpc = "do" /\ lastOutcome'.kind = "resp"
            /\ lastOutcome'.status \notin {408, 429, 500, 502, 503, 504})
           => /\ rpc' = "done"
              /\ result' = [resp |-> lastOutcome', err |-> NoError]
              /\ nSleeps' = nSleeps
              /\ calls' = calls
        /\ rpc = "done" => (calls' = calls /\ nSleeps' = nSleeps /\ result' = result)
      ]_vars

C3_Witness ==
    /\ rpc = "done" /\ calls = 1 /\ nSleeps = 0
    /\ result.resp.status = 400 /\ result.err = NoError

\* C4: once the context is cancelled during a sleep, do is not invoked
\* again, and what DoHTTP then returns is the context's error.
C4_CancelDuringSleep ==
    cancelAt.rpc = "sleep"
    => /\ rpc \in {"sleep", "done"}
       /\ calls = cancelAt.calls
       /\ rpc = "done" => (result.err = CtxError(ctxErr) /\ result.resp = NoResponse)

C4_Witness ==
    /\ rpc = "done" /\ cancelAt.rpc = "sleep" /\ cancelAt.calls = 2
    /\ attempt < policy.MaxAttempts
    /\ result.err.kind = "ctx"

\* C5: a turn of the loop that starts with the context cancelled (the first
\* turn included) returns the context's error and does not invoke do.
C5_CancelledAtLoopHead ==
    [][ /\ (rpc = "idle" /\ rpc' # "idle" /\ ctxErr # "none"
            /\ withDefaults(policy).MaxAttempts >= 1)
           => (rpc' = "done" /\ result'.err = CtxError(ctxErr) /\ calls' = calls)
        /\ (rpc = "sleep" /\ rpc' # "sleep" /\ ctxErr # "none")
           => (rpc' = "done" /\ result'.err = CtxError(ctxErr) /\ calls' = calls)
      ]_vars

C5_Witness ==
    /\ rpc = "done" /\ cancelAt.rpc = "idle" /\ calls = 0
    /\ policy.MaxAttempts >= 1
    /\ result.err.kind = "ctx"

-----------------------------------------------------------------------------
(* Properties of the delay arithmetic *)

\* the header's value is integer seconds or an HTTP-date
HintParses(h) == h.form = "date" \/ (h.form = "text" /\ Atoi(TrimSpace(h.text)).ok)

\* the wait the header asks for, in ticks, as a number without a width
HintTicks(h, now) ==
    IF h.form = "date" THEN h.sec * Second - now
    ELSE Atoi(TrimSpace(h.text)).value * Second

Clamp(x, lo, hi) == IF x < lo THEN lo ELSE IF x > hi THEN hi ELSE x

\* C6: the wait after a retryable status whose Retry-After parses as integer
\* seconds or as an HTTP-date is the hint clamped to [0, MaxDelay], with
\* neither backoff nor jitter applied.
C6_HintClampedToMaxDelay ==
    (rpc = "sleep" /\ lastOutcome.kind = "resp" /\ HintParses(lastOutcome.header))
    => /\ lastSleep.used
       /\ lastSleep.delay =
            Clamp(HintTicks(lastOutcome.header, lastSleep.now), 0, policy.MaxDelay)

\* the part of C6 that the code meets: a hint whose product with time.Second
\* fits the integer width
C6_HintWithoutOverflow ==
    (rpc = "sleep" /\ lastOutcome.kind = "resp" /\ HintParses(lastOutcome.header)
     /\ HintTicks(lastOutcome.header, lastSleep.now) <= MaxInt)
    => /\ lastSleep.used
       /\ lastSleep.delay =
            Clamp(HintTicks(lastOutcome.header, lastSleep.now), 0, policy.MaxDelay)

\* min(BaseDelay * Multiplier^(i-1), MaxDelay) as a ratio num/den
UnjitteredNum(p, i) ==
    IF p.BaseDelay * Pow(p.Multiplier.num, i - 1) > p.MaxDelay * Pow(p.Multiplier.den, i - 1)
    THEN p.MaxDelay * Pow(p.Multiplier.den, i - 1)
    ELSE p.BaseDelay * Pow(p.Multiplier.num, i - 1)

UnjitteredDen(p, i) == Pow(p.Multiplier.den, i - 1)

\* C7 as stated: without a hint the delay handed to Sleep after attempt i is
\* within [d*(1-JitterFraction), d*(1+JitterFraction)] for
\* d = min(BaseDelay*Multiplier^(i-1), MaxDelay), and is not negative.
C7_JitterWithinExactRange ==
    (rpc = "sleep" /\ ~lastSleep.used)
    => LET num == UnjitteredNum(policy, lastSleep.attempt)
           den == UnjitteredDen(policy, lastSleep.attempt)
       IN  /\ lastSleep.delay >= 0
           /\ lastSleep.delay * 100 * den >= num * (100 - policy.JitterFraction)
           /\ lastSleep.delay * 100 * den <= num * (100 + policy.JitterFraction)

\* C7 as amended: with dT the value d truncated to a whole tick, the delay is
\* not negative, at most dT*(1+JitterFraction) and less than one tick below
\* dT*(1-JitterFraction).
C7_JitterWithinTruncatedRange ==
    (rpc = "sleep" /\ ~lastSleep.used)
    => LET dT == UnjitteredNum(policy, lastSleep.attempt)
                   \div UnjitteredDen(policy, lastSleep.attempt)
       IN  /\ lastSleep.delay >= 0
           /\ (lastSleep.delay + 1) * 100 >= dT * (100 - policy.JitterFraction)
           /\ lastSleep.delay * 100 <= dT * (100 + policy.JitterFraction)

\* a wait that truncation has put below d*(1-JitterFraction)
C7_Witness ==
    /\ rpc = "sleep" /\ ~lastSleep.used
    /\ lastSleep.attempt >= 2
    /\ lastSleep.delay > 0
    /\ lastSleep.delay * 100 * UnjitteredDen(policy, lastSleep.attempt)
         < UnjitteredNum(policy, lastSleep.attempt) * (100 - policy.JitterFraction)

\* C8 as stated: for every policy the backoff computed for a later attempt
\* is at least the one computed for an earlier attempt, and none exceeds
\* MaxDelay.
C8_BackoffMonotoneEveryPolicy ==
    /\ backoffLog.prev.attempt >= 1 => backoffLog.last.d >= backoffLog.prev.d
    /\ backoffLog.last.attempt >= 1 => backoffLog.last.d <= policy.MaxDelay

\* C8 as amended: the backoff is non-decreasing for a policy whose
\* Multiplier is at least 1 (and BaseDelay positive); it never exceeds
\* MaxDelay whatever the policy.
C8_BackoffMonotone ==
    /\ (backoffLog.prev.attempt >= 1 /\ policy.BaseDelay > 0
        /\ policy.Multiplier.num >= policy.Multiplier.den)
       => backoffLog.last.d >= backoffLog.prev.d
    /\ backoffLog.last.attempt >= 1 => backoffLog.last.d <= policy.MaxDelay

\* two consecutive backoffs, the later one cut to MaxDelay
C8_Witness ==
    /\ backoffLog.prev.attempt >= 1
    /\ backoffLog.last.attempt = backoffLog.prev.attempt + 1
    /\ backoffLog.prev.d < backoffLog.last.d
    /\ backoffLog.last.d = policy.MaxDelay
    /\ policy.BaseDelay * Pow(policy.Multiplier.num, backoffLog.last.attempt - 1)
         > policy.MaxDelay * Pow(policy.Multiplier.den, backoffLog.last.attempt - 1)

-----------------------------------------------------------------------------
(* Properties of DoHTTP's classification of errors and of hints *)

\* once DoHTTP has returned nothing more happens
ReturnedForGood ==
    rpc = "done" => (rpc' = "done" /\ calls' = calls /\ nSleeps' = nSleeps
                     /\ result' = result)

\* C31: when do returns an error while the context is cancelled or past its
\* deadline, DoHTTP returns that error as it is, on the last attempt as on
\* any other: Sleep is not called, do is not called again and the error is
\* not an ExhaustedError.
C31_CancelledNetErrorNotTransient ==
    [][ /\ (rpc = "do" /\ rpc' # "do" /\ ctxErr # "none" /\ lastOutcome'.kind = "err")
           => /\ rpc' = "done"
              /\ result'.err = NetError(lastOutcome'.err)
              /\ result'.err.kind # "exhausted"
              /\ nSleeps' = nSleeps
              /\ calls' = calls
        /\ ReturnedForGood
      ]_vars

\* the context was cancelled while the last attempt was under way, which
\* then ended in a timeout
C31_Witness ==
    /\ rpc = "done" /\ cancelAt.rpc = "do"
    /\ attempt = policy.MaxAttempts /\ attempt >= 2
    /\ calls = attempt /\ nSleeps = attempt - 1
    /\ lastOutcome.kind = "err" /\ lastOutcome.err = "timeout"
    /\ result.err = NetError("timeout")

\* C32: an error of do that is neither a timeout, a temporary error, an EOF
\* nor a connection reset ends DoHTTP at once, on whatever attempt: it is
\* returned as it is, never inside an ExhaustedError, Sleep is not called
\* for it and do is not called again.
C32_PermanentNetErrorReturned ==
    [][ /\ (rpc = "do" /\ rpc' # "do" /\ lastOutcome'.kind = "err"
            /\ lastOutcome'.err \in {"other", "canceled"})
           => /\ rpc' = "done"
              /\ result'.err = NetError(lastOutcome'.err)
              /\ nSleeps' = nSleeps
              /\ calls' = calls
        /\ rpc = "done" => (rpc' = "done" /\ calls' = calls /\ result' = result)
      ]_vars

\* the second attempt, which is not the last, ended in an error of another
\* kind while the context was not cancelled
C32_Witness ==
    /\ rpc = "done" /\ ctxErr = "none"
    /\ calls = 2 /\ nSleeps = 1 /\ attempt < policy.MaxAttempts
    /\ lastOutcome.kind = "err" /\ lastOutcome.err = "other"
    /\ result.err = NetError("other")

\* the header's value is an integer that is not negative
IsSeconds(h) ==
    h.form = "text" /\ Atoi(TrimSpace(h.text)).ok /\ Atoi(TrimSpace(h.text)).value >= 0

\* the wait is the jittered backoff of the attempt, for some value of Rand
IsJitteredBackoff(rec) ==
    /\ ~rec.used
    /\ rec.backoff = backoffDelay(policy, rec.attempt)
    /\ \E k \in 0..(RandDen - 1) : rec.delay = jitterDelay(policy, rec.backoff, k)

\* C33: a Retry-After that is neither an integer that is not negative nor an
\* HTTP-date (a negative integer, a token that is no number) is left aside:
\* the wait is the jittered backoff and the retry is logged with
\* usedRetryAfter false.
C33_BadHintIgnored ==
    (rpc = "sleep" /\ lastOutcome.kind = "resp"
     /\ lastOutcome.header.form = "text" /\ ~IsSeconds(lastOutcome.header))
    => IsJitteredBackoff(lastSleep)

\* the part of C33 that the code meets: a value strconv.Atoi refuses
C33_TokenIgnored ==
    (rpc = "sleep" /\ lastOutcome.kind = "resp"
     /\ lastOutcome.header.form = "text" /\ ~Atoi(TrimSpace(lastOutcome.header.text)).ok)
    => IsJitteredBackoff(lastSleep)

\* C34: of the statuses that are retried only 429 and 503 have the hint of
\* their Retry-After used; after 408, 500, 502 and 504 the wait is the
\* jittered backoff whatever the headers are.
C34_HintOnlyFor429And503 ==
    (rpc = "sleep" /\ lastOutcome.kind = "resp"
     /\ lastOutcome.status \in {408, 500, 502, 504})
    => IsJitteredBackoff(lastSleep)

\* the part of C34 that the code meets: after 429 and 503 a hint that parses
\* is used
C34_HintFor429And503 ==
    (rpc = "sleep" /\ lastOutcome.kind = "resp"
     /\ lastOutcome.status \in {429, 503} /\ HintParses(lastOutcome.header))
    => lastSleep.used

\* C35: whatever the Policy, a DoHTTP that is entered with a context that
\* is not cancelled calls do at least once and at most MaxAttempts times,
\* and an error it returns that is not the context's follows a call of do.
C35_AtLeastOneAttempt ==
    (rpc = "done" /\ cancelAt.rpc # "idle")
    => /\ calls >= 1
       /\ calls <= policy.MaxAttempts
       /\ result.err.kind \notin {"nil", "ctx"} => calls >= 1

\* the part of C35 that the code meets: a policy whose MaxAttempts is not
\* negative
C35_AttemptsWithinPolicy ==
    (rpc = "done" /\ cancelAt.rpc # "idle" /\ policy.MaxAttempts >= 1)
    => (calls >= 1 /\ calls <= policy.MaxAttempts)

-----------------------------------------------------------------------------
(* webhook.go: the handler's construction and the updates it is sent *)

(***************************************************************************)
(* The updates are a message with one of the texts below, a callback query *)
(* with one of the data strings below, or an update that carries neither.  *)
(* SpecAdmit sends the updates of this section, which reach dispatch,      *)
(* handleCommand for /login, handlePending, handleLogin, handleText while  *)
(* no mode is set, and handleCallbackQuery up to its switch; the other     *)
(* specifications have their own updates.  A unit advances by one call at  *)
(* a time: an access to h.state under h.stateMu, or a call of a            *)
(* collaborator (h.auth, h.bot, h.llm, h.dialogService).  Reads whose      *)
(* result changes nothing here (getSolveModel, and getSelectedModel in the *)
(* handlers of the modes) are not calls of their own, and a message is     *)
(* sent in one part.  In SpecAdmit a                                       *)
(* collaborator call may panic, and the processing deadline does not pass  *)
(* while a unit runs.  The auth sessions do not expire.  Requests that     *)
(* ServeHTTP refuses (a wrong secret token, a body that is no Update) are  *)
(* left out.                                                               *)
(***************************************************************************)

defaultMaxWorkers == 10

\* the values of WebhookDeps.MaxWorkers
DepsMaxWorkers == {-1, 0} \cup (1..MaxWorkersMax)

\* NewWebhookHandler: the capacity of h.sem
NewWebhookHandler(maxWorkers) ==
    IF maxWorkers <= 0 THEN defaultMaxWorkers ELSE maxWorkers

\* the From.ID of the senders
Users == {1}

\* the password of the auth.Service
password == <<"p", "w">>

pendingCommandLogin == "login"

LoginCommand == <<"/", "l", "o", "g", "i", "n">>

\* Message.Text: blank, /login, the password
MessageTexts ==
    { <<" ">>, LoginCommand, password }

\* CallbackQuery.Data: without a colon
CallbackData == { <<"x">> }

\* the actions handleCallbackQuery has a case for
CallbackActions ==
    { <<"m", "o", "d", "e", "l">>,
      <<"s", "o", "l", "v", "e", "_", "m", "o", "d", "e", "l">>,
      <<"s", "o", "l", "v", "e", "_", "r", "e", "t", "r", "y">>,
      <<"r", "e", "t", "r", "y">> }

NoUpdate == [kind |-> "none", user |-> 0, text |-> <<>>]

Updates ==
    { [kind |-> "message", user |-> u, text |-> t] : u \in Users, t \in MessageTexts }
    \cup { [kind |-> "callback", user |-> u, text |-> d] : u \in Users, d \in CallbackData }
    \cup { [kind |-> "other", user |-> 0, text |-> <<>>] }

\* strings.HasPrefix(s, c) for a one-character prefix
HasPrefix(s, c) == s # <<>> /\ s[1] = c

\* strings.SplitN(s, sep, 2)
SplitN(s, sep) ==
    IF \E i \in 1..Len(s) : s[i] = sep
    THEN LET i == CHOOSE k \in 1..Len(s) :
                      s[k] = sep /\ \A j \in 1..(k - 1) : s[j] # sep
         IN  <<SubSeq(s, 1, i - 1), SubSeq(s, i + 1, Len(s))>>
    ELSE <<s>>

-----------------------------------------------------------------------------
(* webhook.go: the handlers, as the calls they make *)

\* One call a unit makes: call is the function called, cmd the pending
\* command of setPending, pw the password of Login, msg the text sent to the
\* bot, from the handler that makes the call.  A call of a mode accessor or
\* of the dialog service has cmd for its string argument (a contract, a
\* dialog mode), on for its bool and id for its dialog id.
InvokeWith(call, cmd, on, id, from) ==
    [call |-> call, cmd |-> cmd, pw |-> <<>>, msg |-> "", from |-> from,
     on |-> on, id |-> id]

Invoke(call, cmd, pw, msg, from) ==
    [InvokeWith(call, cmd, FALSE, 0, from) EXCEPT !.pw = pw, !.msg = msg]

clearPending == Invoke("clearPending", "", <<>>, "", "dispatch")
setPending(cmd) == Invoke("setPending", cmd, <<>>, "", "handleLogin")
popPending == Invoke("popPending", "", <<>>, "", "dispatch")
readModes == Invoke("readModes", "", <<>>, "", "handleText")
Login(pw) == Invoke("Login", "", pw, "", "handleLogin")
IsAuthorized(from) == Invoke("IsAuthorized", "", <<>>, "", from)
Logout == Invoke("Logout", "", <<>>, "", "handleCommand")
reply(msg) == Invoke("SendMessage", "", <<>>, msg, "reply")
AnswerCallbackQuery(msg) == Invoke("AnswerCallbackQuery", "", <<>>, msg, "handleCallbackQuery")

\* the accessors of the mode fields, each one critical section of h.stateMu
setAskMode(on) == InvokeWith("setAskMode", "", on, 0, "handleCommand")
setAskJSONMode(on, contract) == InvokeWith("setAskJSONMode", contract, on, 0, "handleCommand")
setSolveMode(on, from) == InvokeWith("setSolveMode", "", on, 0, from)
setDialogMode(mode, id) == InvokeWith("setDialogMode", mode, FALSE, id, "handleCreatePlanCommand")
clearDialogMode == InvokeWith("clearDialogMode", "", FALSE, 0, "handleEndDialog")
getDialogState(from) == InvokeWith("getDialogState", "", FALSE, 0, from)
\* isAskMode, askJSONState, isDialogMode and isSolveMode of the case "/end"
readEndModes == InvokeWith("readModes", "", FALSE, 0, "/end")
\* setLastQuestion (of handleAsk and handleAskJSON), setLastDialogMessage,
\* setSolveTaskData, setSolveModel: a write, of lastQuestion or of the fields
\* that are left out
setData(from) == InvokeWith("setData", "", FALSE, 0, from)
\* getAndClearShowModelName, with the cancelAnimation() that follows it
getAndClearShowModelName(from) ==
    InvokeWith("getAndClearShowModelName", "", FALSE, 0, from)
generateDialogID == InvokeWith("generateDialogID", "", FALSE, 0, "handleCreatePlanCommand")
\* the accessors of the selected model and of the flag that has the next
\* answer name it; getSelectedModel of handleModelCallback goes with the
\* model of the button
setSelectedModel(model) == InvokeWith("setSelectedModel", model, FALSE, 0, "handleModelCallback")
getSelectedModel(model, from) == InvokeWith("getSelectedModel", model, FALSE, 0, from)
setShowModelName(show) == InvokeWith("setShowModelName", "", show, 0, "handleModelCallback")
\* isAskMode, askJSONState, getDialogState and getLastQuestion of
\* handleModelCallback
readModelModes == InvokeWith("readModes", "", FALSE, 0, "handleModelCallback")

\* h.dialogService and h.llm
ClearDialog(id, from) == InvokeWith("ClearDialog", "", FALSE, id, from)
ChatCompletion == InvokeWith("ChatCompletion", "", FALSE, 0, "handleAsk")
ChatCompletionWithSystem == InvokeWith("ChatCompletionWithSystem", "", FALSE, 0, "handleAskJSON")
\* DialogService.Chat, called by CreatePlan: dialogStore.Get with the
\* building of the messages and doLLMRequest, then dialogStore.Append
doLLMRequest(id) == InvokeWith("doLLMRequest", "", FALSE, id, "Chat")
dialogStoreAppend(id) == InvokeWith("dialogStore.Append", "", FALSE, id, "Chat")
\* DialogService.ReplayCreatePlan: the history sent again, the last answer
\* replaced
ReplayCreatePlan(id) == InvokeWith("ReplayCreatePlan", "", FALSE, id, "handleDialogModelChange")
GetSolutionVariantsParallel ==
    InvokeWith("GetSolutionVariantsParallel", "", FALSE, 0, "executeSolveTask")

\* h.bot
sendThinkingAnimation(from) == Invoke("SendMessage", "", <<>>, "thinking", from)
EditMessage(msg, from) == Invoke("EditMessage", "", <<>>, msg, from)

\* h.bot.EditMessageKeyboard(ctx, chatID, messageID, text, retryKeyboard(retryAction))
EditMessageKeyboard(msg, retryAction, from) ==
    Invoke("EditMessageKeyboard", retryAction, <<>>, msg, from)
SendMessageWithKeyboard(msg) == Invoke("SendMessageWithKeyboard", "", <<>>, msg, "showSolveModelSelection")
\* a call of h.bot made with a context that is no child of the unit's
sendDetached(msg) == Invoke("SendMessage", "", <<>>, msg, "executeSolveTask")

\* the calls that leave the handler: a method of h.auth, h.bot, h.llm or
\* h.dialogService
CollaboratorCalls ==
    {"Login", "Logout", "IsAuthorized", "SendMessage", "AnswerCallbackQuery", "EditMessage",
     "EditMessageKeyboard", "SendMessageWithKeyboard", "ClearDialog", "ChatCompletion",
     "ChatCompletionWithSystem", "doLLMRequest", "dialogStore.Append",
     "GetSolutionVariantsParallel", "ReplayCreatePlan"}

\* the calls of the language model, which return an answer or an error
LLMCalls == {"ChatCompletion", "ChatCompletionWithSystem", "doLLMRequest"}

\* the handlers of the modes
ModeHandlers == {"handleAsk", "handleAskJSON", "handleDialogMessage"}

\* the handlers that call sendThinkingAnimation and look at its error
ThinkingHandlers == ModeHandlers \cup {"handleDialogModelChange"}

\* the calls whose context is made from context.Background(), not from the
\* ctx of the unit
DetachedCalls == {"GetSolutionVariantsParallel"}

Detached(c) == c.call \in DetachedCalls \/ c.from = "executeSolveTask"

dialogModeCreatePlan == "create_plan"

\* llmcontracts.DefaultContract()
DefaultContract == "STRICT_JSON_V3"

\* llmcontracts.HasContract for the argument of /ask_json: the registry
\* has the one contract
HasContract(arg) ==
    arg = <<"S", "T", "R", "I", "C", "T", "_", "J", "S", "O", "N", "_", "V", "3">>

handleLogin(pw) ==
    IF pw = <<>>
    THEN <<setPending(pendingCommandLogin), reply("enter the password")>>
    ELSE <<Login(pw)>>

\* after h.auth.Login has returned
handleLoginResult(err) ==
    IF err THEN <<reply("login failed")>> ELSE <<reply("logged in")>>

\* handleAsk up to the second IsAuthorized
handleAsk(question) ==
    IF question = <<>> THEN <<reply("ask a question")>>
    ELSE <<IsAuthorized("handleAsk")>>

\* handleAsk after IsAuthorized: setLastQuestion, sendThinkingAnimation
handleAskAuthorized(ok) ==
    IF ~ok THEN <<reply("authorization needed")>>
    ELSE <<setData("handleAsk"), sendThinkingAnimation("handleAsk")>>

\* handleAskJSON up to sendThinkingAnimation
handleAskJSON(question) ==
    IF question = <<>> THEN <<reply("ask a question")>>
    ELSE <<setData("handleAskJSON"), sendThinkingAnimation("handleAskJSON")>>

\* handleDialogMessage up to sendThinkingAnimation; the dialog id goes with
\* the call, as it does in the parameter of the handler
handleDialogMessage(svc, id) ==
    IF ~svc THEN <<reply("no dialog service")>>
    ELSE <<setData("handleDialogMessage"),
           [sendThinkingAnimation("handleDialogMessage") EXCEPT !.id = id]>>

\* a changed error branch: the mode is switched off
afterLLMError_modeOff(from, cause) ==
    <<setAskMode(FALSE), setAskJSONMode(FALSE, ""), clearDialogMode,
      EditMessage("llm error", from)>>

\* an error made by fmt.Errorf("...: %w", err)
Wrapped(err) == [kind |-> "wrap", inner |-> err]

\* the errors a request of the language model ends with: the retries used up
\* (as DoHTTP returns it, and wrapped by the client), a failure that is not
\* retried, and the context of the unit cancelled or past its deadline
LLMErrors ==
    {ExhaustedError(HTTPStatusError(503), defaultMaxAttempts),
     Wrapped(ExhaustedError(NetError("timeout"), defaultMaxAttempts)),
     NetError("other"),
     CtxError("canceled"),
     Wrapped(CtxError("deadline"))}

\* a changed retryErrorMessage: every error is taken for one of used-up retries
retryErrorMessage_always(err) == TRUE

\* retryErrorMessage: errors.As(err, &exhausted), which goes down the chain of
\* Unwrap until it finds a *retry.ExhaustedError
RECURSIVE retryErrorMessage(_)
retryErrorMessage(err) ==
    IF err.kind = "exhausted" THEN TRUE
    ELSE IF err.kind = "wrap" THEN retryErrorMessage(err.inner)
    ELSE FALSE

\* retryAction of the three mode handlers
retryAction(from) ==
    CASE from = "handleAsk" -> "retry:ask"
      [] from = "handleAskJSON" -> "retry:ask_json"
      [] OTHER -> "retry:dialog"

\* the three mode handlers after the model or the dialog service has
\* returned an error: cancelAnimation, the log line, and
\* handleRetryableLLMError, which puts its text and the retry keyboard into
\* the thinking message, or else "Ошибка LLM" put into the thinking message
afterLLMError(from, cause) ==
    IF retryErrorMessage(cause)
    THEN <<EditMessageKeyboard("retry button", retryAction(from), from)>>
    ELSE <<EditMessage("llm error", from)>>

\* handleRetryableLLMError after EditMessageKeyboard has returned:
\* if editErr != nil { h.reply(ctx, msg.Chat.ID, text) }
afterEditMessageKeyboard(err) == IF err THEN <<reply("retry text")>> ELSE <<>>

\* the three mode handlers after the answer has come
afterLLMAnswer(from) ==
    <<getAndClearShowModelName(from), EditMessage("answer", from)>>
    \o (IF from = "handleAskJSON" THEN <<reply("validation")>> ELSE <<>>)

\* after sendThinkingAnimation has returned in a mode handler
afterThinking(from, id, err) ==
    IF err THEN <<reply("send error")>>
    ELSE CASE from = "handleAsk" -> <<ChatCompletion>>
           [] from = "handleAskJSON" -> <<ChatCompletionWithSystem>>
           [] from = "handleDialogMessage" -> <<doLLMRequest(id)>>
           [] from = "handleDialogModelChange" -> <<ReplayCreatePlan(id)>>

\* handleDialogModelChange up to sendThinkingAnimation
handleDialogModelChange(svc, id) ==
    IF ~svc THEN <<reply("no dialog service")>>
    ELSE <<[sendThinkingAnimation("handleDialogModelChange") EXCEPT !.id = id]>>

\* handleDialogModelChange after ReplayCreatePlan has returned: the error
\* text, or the answer with the name of the model in front; the flag
\* showModelName is not looked at
afterReplayCreatePlan(err) ==
    IF err THEN <<EditMessage("llm error", "handleDialogModelChange")>>
    ELSE <<EditMessage("answer", "handleDialogModelChange")>>

\* executeSolveTask; the messages of the steps are sent with contexts made
\* from context.Background(), and so is the request of the variants
executeSolveTask(svc) ==
    IF ~svc THEN <<reply("no dialog service")>>
    ELSE <<setData("handleSolveTask"), reply("header"), sendDetached("steps"),
           GetSolutionVariantsParallel, sendDetached("finished")>>

\* handleSolveTask: getSolveModel, setSolveMode(false), executeSolveTask
handleSolveTask(svc) ==
    <<setSolveMode(FALSE, "handleSolveTask")>> \o executeSolveTask(svc)

\* a changed handleCreatePlanCommand: the old dialog is left alone
handleCreatePlanCommand_keepsOld(svc, mode, id) == <<generateDialogID>>

\* handleCreatePlanCommand after getDialogState
handleCreatePlanCommand(svc, mode, id) ==
    (IF mode = dialogModeCreatePlan /\ id # 0 /\ svc
     THEN <<ClearDialog(id, "handleCreatePlanCommand")>> ELSE <<>>)
    \o <<generateDialogID>>

\* handleCreatePlanCommand after generateDialogID
handleCreatePlanNewID(id) ==
    <<setDialogMode(dialogModeCreatePlan, id), reply("plan mode on")>>

\* handleEndDialog after getDialogState
handleEndDialog(svc, mode, id) ==
    IF mode = "" THEN <<reply("not in a dialog")>>
    ELSE (IF svc /\ id # 0 THEN <<ClearDialog(id, "handleEndDialog")>> ELSE <<>>)
         \o <<clearDialogMode, reply("dialog ended")>>

\* a changed case "/end": nothing is switched off unless a dialog is on
handleEnd_dialogOnly(ask, askJSON, dialogActive, solveActive) ==
    IF dialogActive THEN <<getDialogState("handleEndDialog")>>
    ELSE <<reply("mode off")>>

\* the case "/end" after the four flags have been read
handleEnd(ask, askJSON, dialogActive, solveActive) ==
    IF ask \/ askJSON \/ dialogActive \/ solveActive
    THEN <<setAskMode(FALSE), setAskJSONMode(FALSE, ""),
           setSolveMode(FALSE, "handleCommand")>>
         \o (IF dialogActive THEN <<getDialogState("handleEndDialog")>>
             ELSE <<reply("mode off")>>)
    ELSE <<reply("not in a mode")>>

AskCommand == <<"/", "a", "s", "k">>
AskJSONCommand == <<"/", "a", "s", "k", "_", "j", "s", "o", "n">>
CreatePlanCommand == <<"/", "c", "r", "e", "a", "t", "e", "_", "p", "l", "a", "n">>
SolveCommand == <<"/", "s", "o", "l", "v", "e">>
EndCommand == <<"/", "e", "n", "d">>
LogoutCommand == <<"/", "l", "o", "g", "o", "u", "t">>
ModelCommand == <<"/", "m", "o", "d", "e", "l">>

\* the commands that begin with IsAuthorized
AuthorizedCommands ==
    {AskCommand, AskJSONCommand, CreatePlanCommand, SolveCommand, ModelCommand}

\* handleModelCommand: the selected model is read for the text and the
\* keyboard
handleModelCommand ==
    <<getSelectedModel("", "handleModelCommand"),
      [SendMessageWithKeyboard("models") EXCEPT !.from = "handleModelCommand"]>>

\* the switch of handleCommand; /start and /me are not among the cases
handleCommand(text) ==
    LET parts == SplitN(text, " ")
        cmd == parts[1]
        arg == IF Len(parts) > 1 THEN TrimSpace(parts[2]) ELSE <<>>
    IN  CASE cmd = LoginCommand ->
                IF arg = <<>>
                THEN <<setPending(pendingCommandLogin), reply("enter the password")>>
                ELSE handleLogin(arg)
          [] cmd \in AuthorizedCommands -> <<IsAuthorized("handleCommand")>>
          [] cmd = LogoutCommand ->
                <<Logout, setAskMode(FALSE), setAskJSONMode(FALSE, ""),
                  [clearPending EXCEPT !.from = "handleCommand"], reply("logged out")>>
          [] cmd = EndCommand -> <<readEndModes>>
          [] OTHER -> <<reply("unknown command"), reply("command list")>>

\* a case of handleCommand after h.auth.IsAuthorized has returned
handleCommandAuthorized(ok, text) ==
    LET parts == SplitN(text, " ")
        cmd == parts[1]
        arg == IF Len(parts) > 1 THEN TrimSpace(parts[2]) ELSE <<>>
    IN  IF ~ok THEN <<reply("authorization needed")>>
        ELSE CASE cmd = AskCommand ->
                    <<setAskMode(TRUE), setAskJSONMode(FALSE, ""), reply("ask mode on")>>
                    \o (IF arg # <<>> THEN handleAsk(arg) ELSE <<>>)
               [] cmd = AskJSONCommand ->
                    IF arg # <<>> /\ ~HasContract(arg) THEN <<reply("unknown contract")>>
                    ELSE <<setAskMode(FALSE), setAskJSONMode(TRUE, DefaultContract),
                           reply("ask_json mode on")>>
               [] cmd = CreatePlanCommand -> <<getDialogState("handleCreatePlanCommand")>>
               [] cmd = SolveCommand -> <<SendMessageWithKeyboard("choose a model")>>
               [] cmd = ModelCommand -> handleModelCommand

handlePending(cmd, text) ==
    IF cmd = pendingCommandLogin
    THEN handleLogin(text)
    ELSE <<reply("unknown state")>>

handleText == <<IsAuthorized("handleText")>>

\* a changed handleText: the answer of h.auth is not looked at
handleTextAuthorized_open(ok) == <<readModes>>

\* after h.auth.IsAuthorized has returned in handleText
handleTextAuthorized(ok) ==
    IF ~ok THEN <<reply("login needed")>> ELSE <<readModes>>

\* after isSolveMode, getDialogState, askJSONState and isAskMode have all
\* found no mode set
handleTextNoMode == <<reply("no mode is on")>>

\* the mode handler handleText chooses for the session s, "" for none
handlerOf(s) ==
    IF s.solveMode THEN "handleSolveTask"
    ELSE IF s.dialogMode # "" THEN "handleDialogMessage"
    ELSE IF s.askJSONMode THEN "handleAskJSON"
    ELSE IF s.askMode THEN "handleAsk"
    ELSE ""

\* handleText after IsAuthorized: the four checks of the modes, in the
\* order of the code, read together here
handleTextModes(s, svc, text) ==
    CASE handlerOf(s) = "handleSolveTask" -> handleSolveTask(svc)
      [] handlerOf(s) = "handleDialogMessage" -> handleDialogMessage(svc, s.dialogID)
      [] handlerOf(s) = "handleAskJSON" -> handleAskJSON(text)
      [] handlerOf(s) = "handleAsk" -> handleAsk(text)
      [] OTHER -> handleTextNoMode

dispatch(text) ==
    IF text = <<>> THEN <<reply("empty message")>>
    ELSE IF HasPrefix(text, "/") THEN <<clearPending>> \o handleCommand(text)
    ELSE <<popPending>>

\* a changed dispatch: the pending command is not looked at
dispatchPopped_toText(cmd, ok, text) == handleText

\* after popPending has returned
dispatchPopped(cmd, ok, text) ==
    IF ok THEN handlePending(cmd, text) ELSE handleText

handleCallbackQuery == <<IsAuthorized("handleCallbackQuery")>>

SolveModelAction == <<"s", "o", "l", "v", "e", "_", "m", "o", "d", "e", "l">>

ModelAction == <<"m", "o", "d", "e", "l">>

\* the indexes of llm.AvailableModels, as callback data: the first two
ModelIndexes == { <<"0">>, <<"1">> }

\* llm.AvailableModels[i].ID
ModelID(data) == IF data = <<"0">> THEN "claude-3.5-sonnet" ELSE "gpt-4o"

\* handleModelCallback up to getSelectedModel
handleModelCallback(data) ==
    IF data \notin ModelIndexes THEN <<AnswerCallbackQuery("bad model")>>
    ELSE <<getSelectedModel(ModelID(data), "handleModelCallback")>>

\* handleModelCallback after getSelectedModel: the model and the flag are
\* set, and the keyboard of the message is put anew, whatever
\* EditMessageKeyboard returns
handleModelSelected(currentModel, selectedModel) ==
    IF currentModel = selectedModel THEN <<AnswerCallbackQuery("already chosen")>>
    ELSE <<setSelectedModel(selectedModel), setShowModelName(TRUE),
           EditMessageKeyboard("models", "", "handleModelCallback"), readModelModes>>

\* the handler that handleModelCallback sends the last question or the
\* dialog with again, "" for none
resendOf(s) ==
    IF s.dialogMode = dialogModeCreatePlan /\ s.dialogID # 0
    THEN "handleDialogModelChange"
    ELSE IF (s.askMode \/ s.askJSONMode) /\ s.lastQuestion
    THEN (IF s.askJSONMode THEN "handleAskJSON" ELSE "handleAsk")
    ELSE ""

\* handleModelCallback after the modes and the last question have been
\* read; the question that is sent again is not empty
handleModelModes(s, svc) ==
    CASE resendOf(s) = "handleDialogModelChange" ->
            <<AnswerCallbackQuery("sending the dialog again")>>
            \o handleDialogModelChange(svc, s.dialogID)
      [] resendOf(s) = "handleAskJSON" ->
            <<AnswerCallbackQuery("sending the question again")>>
            \o handleAskJSON(<<"q">>)
      [] resendOf(s) = "handleAsk" ->
            <<AnswerCallbackQuery("sending the question again")>>
            \o handleAsk(<<"q">>)
      [] OTHER -> <<AnswerCallbackQuery("model chosen")>>

\* handleSolveModelCallback, for a callback that carries its Message
handleSolveModelCallback(data) ==
    IF data \notin ModelIndexes THEN <<AnswerCallbackQuery("bad model")>>
    ELSE <<setData("handleSolveModelCallback"),
           setSolveMode(TRUE, "handleSolveModelCallback"),
           AnswerCallbackQuery("model chosen"),
           EditMessage("model chosen", "handleSolveModelCallback"),
           reply("describe the task")>>

\* after h.auth.IsAuthorized has returned in handleCallbackQuery
handleCallbackAuthorized(ok, data) ==
    IF ~ok THEN <<AnswerCallbackQuery("authorization needed")>>
    ELSE LET parts == SplitN(data, ":")
         IN  IF Len(parts) < 2 THEN <<AnswerCallbackQuery("bad data format")>>
             ELSE CASE parts[1] = ModelAction -> handleModelCallback(parts[2])
                    [] parts[1] = SolveModelAction -> handleSolveModelCallback(parts[2])
                    [] parts[1] \notin CallbackActions ->
                         <<AnswerCallbackQuery("unknown action")>>

\* a userState, with ok telling whether the map has the key.  A dialogID is
\* the clock reading it was made of, 0 for the empty string.  The fields
\* that hold texts and solve data are left out, but for lastQuestion, which
\* tells whether a question is kept.
NoState ==
    [ok |-> FALSE, pending |-> "", askMode |-> FALSE, askJSONMode |-> FALSE,
     askJSONContract |-> "", dialogMode |-> "", dialogID |-> 0,
     solveMode |-> FALSE, selectedModel |-> "", showModelName |-> FALSE,
     lastQuestion |-> FALSE]

\* the mode fields of a userState
ModeOf(s) ==
    [askMode |-> s.askMode, askJSONMode |-> s.askJSONMode,
     askJSONContract |-> s.askJSONContract, dialogMode |-> s.dialogMode,
     dialogID |-> s.dialogID, solveMode |-> s.solveMode]

\* What one call does, made by user u's unit for the text in the world w
\* (the session map, the auth store, the dialog store, the clock and
\* whether h.dialogService is set), returning an error if err: the world
\* after it, the calls it puts in front of the unit's remaining ones,
\* whether it wrote the map or the auth store, what it sent to the bot, the
\* mode handler it enters, and whether it starts or stops the goroutine of
\* the thinking animation.
Exec(c, u, text, w, err) ==
    LET st == w.state
        ss == w.sessions
        base == [state |-> st, sessions |-> ss, dialogs |-> w.dialogs,
                 clock |-> w.clock, next |-> <<>>, wrote |-> FALSE, out |-> <<>>,
                 enter |-> "", anim |-> "keep", cause |-> w.cause,
                 shown |-> FALSE]
        cause == w.cause
        res(st2, ss2, next, wrote, out) ==
            [base EXCEPT !.state = st2, !.sessions = ss2, !.next = next,
                         !.wrote = wrote, !.out = out]
        set(st2, next) == res(st2, ss, next, TRUE, <<>>)
    IN  CASE c.call = "clearPending" ->
                res([st EXCEPT ![u].ok = TRUE, ![u].pending = ""], ss, <<>>, TRUE, <<>>)
          [] c.call = "setPending" ->
                res([st EXCEPT ![u].ok = TRUE, ![u].pending = c.cmd], ss, <<>>, TRUE, <<>>)
          [] c.call = "popPending" ->
                IF ~st[u].ok \/ st[u].pending = ""
                THEN res(st, ss, dispatchPopped("", FALSE, text), FALSE, <<>>)
                ELSE [res([st EXCEPT ![u].ok = TRUE, ![u].pending = ""], ss,
                          dispatchPopped(st[u].pending, TRUE, text), TRUE, <<>>)
                        EXCEPT !.enter = "handlePending"]
          [] c.call = "readModes" ->
                IF c.from = "/end"
                THEN res(st, ss, handleEnd(st[u].askMode, st[u].askJSONMode,
                                           st[u].dialogMode # "", st[u].solveMode),
                         FALSE, <<>>)
                ELSE IF c.from = "handleModelCallback"
                THEN [res(st, ss, handleModelModes(st[u], w.svc), FALSE, <<>>)
                        EXCEPT !.enter = resendOf(st[u])]
                ELSE [res(st, ss, handleTextModes(st[u], w.svc, text), FALSE, <<>>)
                        EXCEPT !.enter = handlerOf(st[u])]
          [] c.call = "setAskMode" ->
                set([st EXCEPT ![u].ok = TRUE, ![u].askMode = c.on], <<>>)
          [] c.call = "setAskJSONMode" ->
                set([st EXCEPT ![u].ok = TRUE, ![u].askJSONMode = c.on,
                               ![u].askJSONContract = c.cmd], <<>>)
          [] c.call = "setSolveMode" ->
                set([st EXCEPT ![u].ok = TRUE, ![u].solveMode = c.on], <<>>)
          [] c.call = "setDialogMode" ->
                set([st EXCEPT ![u].ok = TRUE, ![u].dialogMode = c.cmd,
                               ![u].dialogID = c.id], <<>>)
          [] c.call = "clearDialogMode" ->
                set([st EXCEPT ![u].ok = TRUE, ![u].dialogMode = "",
                               ![u].dialogID = 0], <<>>)
          [] c.call = "setData" ->
                set([st EXCEPT ![u].ok = TRUE,
                               ![u].lastQuestion =
                                   @ \/ c.from \in {"handleAsk", "handleAskJSON"}], <<>>)
          [] c.call = "getAndClearShowModelName" ->
                IF ~st[u].ok \/ ~st[u].showModelName
                THEN [base EXCEPT !.anim = "stop"]
                ELSE [set([st EXCEPT ![u].showModelName = FALSE], <<>>)
                        EXCEPT !.anim = "stop", !.shown = TRUE]
          [] c.call = "setSelectedModel" ->
                set([st EXCEPT ![u].ok = TRUE, ![u].selectedModel = c.cmd], <<>>)
          [] c.call = "getSelectedModel" ->
                res(st, ss,
                    IF c.from = "handleModelCallback"
                    THEN handleModelSelected(IF st[u].ok THEN st[u].selectedModel ELSE "",
                                             c.cmd)
                    ELSE <<>>,
                    FALSE, <<>>)
          [] c.call = "setShowModelName" ->
                set([st EXCEPT ![u].ok = TRUE, ![u].showModelName = c.on], <<>>)
          [] c.call = "getDialogState" ->
                LET mode == IF st[u].ok THEN st[u].dialogMode ELSE ""
                    id == IF mode = "" THEN 0 ELSE st[u].dialogID
                IN  res(st, ss,
                        IF c.from = "handleEndDialog"
                        THEN handleEndDialog(w.svc, mode, id)
                        ELSE handleCreatePlanCommand(w.svc, mode, id),
                        FALSE, <<>>)
          [] c.call = "generateDialogID" ->
                [base EXCEPT !.clock = w.clock + 1,
                             !.next = handleCreatePlanNewID(w.clock + 1)]
          [] c.call = "Login" ->
                IF password # <<>> /\ password # c.pw
                THEN res(st, ss, handleLoginResult(TRUE), FALSE, <<>>)
                ELSE res(st, ss \cup {u}, handleLoginResult(FALSE), TRUE, <<>>)
          [] c.call = "Logout" ->
                res(st, ss \ {u}, <<>>, TRUE, <<>>)
          [] c.call = "IsAuthorized" ->
                res(st, ss,
                    CASE c.from = "handleText" -> handleTextAuthorized(u \in ss)
                      [] c.from = "handleCommand" -> handleCommandAuthorized(u \in ss, text)
                      [] c.from = "handleAsk" -> handleAskAuthorized(u \in ss)
                      [] OTHER -> handleCallbackAuthorized(u \in ss, text),
                    FALSE, <<>>)
          [] c.call = "SendMessage" ->
                IF c.from \in ThinkingHandlers
                THEN [base EXCEPT !.next = afterThinking(c.from, c.id, err),
                                  !.out = IF err THEN <<>> ELSE <<c.msg>>,
                                  !.anim = IF err THEN "keep" ELSE "start"]
                ELSE res(st, ss, <<>>, FALSE, IF err THEN <<>> ELSE <<c.msg>>)
          [] c.call \in {"AnswerCallbackQuery", "EditMessage", "SendMessageWithKeyboard"} ->
                res(st, ss, <<>>, FALSE, IF err THEN <<>> ELSE <<c.msg>>)
          [] c.call = "EditMessageKeyboard" ->
                res(st, ss,
                    IF c.from = "handleModelCallback" THEN <<>>
                    ELSE afterEditMessageKeyboard(err),
                    FALSE, IF err THEN <<>> ELSE <<c.msg>>)
          [] c.call \in {"ChatCompletion", "ChatCompletionWithSystem"} ->
                [base EXCEPT !.next = IF err THEN afterLLMError(c.from, cause)
                                      ELSE afterLLMAnswer(c.from),
                             !.anim = IF err THEN "stop" ELSE "keep"]
          [] c.call = "doLLMRequest" ->
                [base EXCEPT !.next = IF err
                                      THEN afterLLMError("handleDialogMessage", cause)
                                      ELSE <<dialogStoreAppend(c.id)>>,
                             !.anim = IF err THEN "stop" ELSE "keep"]
          [] c.call = "dialogStore.Append" ->
                [base EXCEPT !.dialogs = w.dialogs \cup {c.id},
                             !.next = afterLLMAnswer("handleDialogMessage")]
          [] c.call = "ClearDialog" ->
                [base EXCEPT !.dialogs = w.dialogs \ {c.id}]
          [] c.call = "ReplayCreatePlan" ->
                [base EXCEPT !.next = afterReplayCreatePlan(err \/ c.id \notin w.dialogs),
                             !.anim = IF err \/ c.id \notin w.dialogs
                                      THEN "stop" ELSE "keep"]
          [] c.call = "GetSolutionVariantsParallel" -> base

-----------------------------------------------------------------------------
(* webhook.go: ServeHTTP, processAsync, processCallbackAsync and the slots *)

Events == 1..NEvents

\* the calls that switch a mode on
Activates(c) ==
    \/ c.call \in {"setAskMode", "setAskJSONMode", "setSolveMode"} /\ c.on
    \/ c.call = "setDialogMode"

\* the calls that have the language model asked
LLMRequests == LLMCalls \cup {"ReplayCreatePlan", "GetSolutionVariantsParallel"}

\* the calls of a unit that its history keeps, with their arguments
TracedCalls == {"ClearDialog", "setDialogMode"}

NoHistory ==
    [dropped |-> FALSE, dispatched |-> FALSE, wrote |-> FALSE, sent |-> <<>>,
     panicked |-> FALSE, releases |-> 0, logged |-> FALSE,
     handler |-> "", llmError |-> FALSE, modeChanged |-> FALSE,
     trace |-> <<>>, late |-> FALSE, start |-> NoState, cause |-> NoError,
     gate |-> "", acted |-> FALSE, shown |-> 0, flagged |-> 0,
     answered |-> FALSE, cleared |-> FALSE]

InitAdmit ==
    /\ RetryIdle
    /\ NoLibrary
    /\ policy = CHOOSE p \in Policies : p.MaxAttempts = 0
    /\ \E maxWorkers \in DepsMaxWorkers : semCap = NewWebhookHandler(maxWorkers)
    /\ sem = 0
    /\ sendq = <<>>
    /\ arrived = 0
    /\ upd = [e \in Events |-> NoUpdate]
    /\ upc = [e \in Events |-> "new"]
    /\ todo = [e \in Events |-> <<>>]
    /\ state = [u \in Users |-> NoState]
    /\ sessions = {}
    /\ hist = [e \in Events |-> NoHistory]
    /\ crashed = FALSE
    /\ dialogs = {}
    /\ clock = 0
    /\ dialogService = FALSE
    /\ animations = {}
    /\ expired = {}

\* a changed processAsync: the result of acquireSlot is not looked at
processAsync_ignoresResult(acquired) == "go"

\* processAsync and processCallbackAsync after acquireSlot has returned:
\* return, or start the goroutine
processAsync(acquired) == IF ~acquired THEN "dropped" ELSE "go"

\* a changed releaseSlot: nothing is received
releaseSlot_noReceive(n, q) == [n |-> n, q |-> q, woke |-> 0, taken |-> FALSE]

\* releaseSlot: the non-blocking receive from h.sem, holding n elements with
\* the senders q blocked.  A receive from a full channel with blocked senders
\* completes the send of the first of them.
releaseSlot(n, q) ==
    IF n = 0 THEN [n |-> n, q |-> q, woke |-> 0, taken |-> FALSE]
    ELSE IF q # <<>> THEN [n |-> n, q |-> Tail(q), woke |-> Head(q), taken |-> TRUE]
    ELSE [n |-> n - 1, q |-> q, woke |-> 0, taken |-> TRUE]

\* The HTTP server calls ServeHTTP with update u as request e.  The update
\* is acknowledged; one with a callback query or a message goes to
\* processCallbackAsync or processAsync, whose acquireSlot sends to h.sem at
\* once if there is room and blocks in the select if there is none.
ServeHTTP(e, u) ==
    /\ e = arrived + 1
    /\ upc[e] = "new"
    /\ arrived' = e
    /\ upd' = [upd EXCEPT ![e] = u]
    /\ IF u.kind = "other"
       THEN /\ upc' = [upc EXCEPT ![e] = "ignored"]
            /\ UNCHANGED <<sem, sendq>>
       ELSE IF sem < semCap
       THEN /\ sem' = sem + 1
            /\ upc' = [upc EXCEPT ![e] = processAsync(TRUE)]
            /\ UNCHANGED sendq
       ELSE /\ sendq' = Append(sendq, e)
            /\ upc' = [upc EXCEPT ![e] = "waiting"]
            /\ UNCHANGED sem
    /\ UNCHANGED <<semCap, todo, state, sessions, hist, crashed, modeVars, retryVars, libVars>>

\* acquireSlot of request e: time.After(h.acquireTTL) fires while the send is
\* still blocked; the warning is logged and acquireSlot returns false
AcquireTimeout(e) ==
    /\ upc[e] = "waiting"
    /\ sendq' = SelectSeq(sendq, LAMBDA w : w # e)
    /\ upc' = [upc EXCEPT ![e] = processAsync(FALSE)]
    /\ hist' = [hist EXCEPT ![e].dropped = TRUE]
    /\ UNCHANGED <<semCap, sem, arrived, upd, todo, state, sessions, crashed,
                   modeVars, retryVars, libVars>>

\* the text the handlers of request e are given: the message's text as
\* ServeHTTP has trimmed it, or the callback's data
TextOf(e) == IF upd[e].kind = "message" THEN TrimSpace(upd[e].text) ELSE upd[e].text

\* The calls the unit of request e has still to make.  A goroutine that has
\* not run yet has its two defers, context.WithTimeout and the whole of
\* dispatch or handleCallbackQuery before it.
Calls(e) ==
    IF upc[e] = "go"
    THEN IF upd[e].kind = "message" THEN dispatch(TextOf(e)) ELSE handleCallbackQuery
    ELSE todo[e]

\* a goroutine that defers no recover(): a panic ends the process
deferredRecover_absent(panicking) == [logged |-> FALSE, crashed |-> panicking]

\* the deferred function of processAsync and processCallbackAsync, run when
\* the goroutine ends, panicking or not: recover() stops a panic, and the
\* only thing done about it is h.logger.Error
deferredRecover(panicking) == [logged |-> panicking, crashed |-> FALSE]

\* The goroutine of request e ends, after a return or a panic of the
\* handler, with the history h of its last call: the deferred cancel(), the
\* deferred recover() with its log line, and the deferred releaseSlot.  A
\* process that a panic has ended releases nothing.
Unwind(e, h) ==
    LET d == deferredRecover(h[e].panicked)
        r == IF d.crashed
             THEN [n |-> sem, q |-> sendq, woke |-> 0, taken |-> FALSE]
             ELSE releaseSlot(sem, sendq)
    IN  /\ sem' = r.n
        /\ sendq' = r.q
        /\ crashed' = (crashed \/ d.crashed)
        /\ upc' = [x \in Events |->
                     IF x = e THEN "done"
                     ELSE IF x = r.woke THEN processAsync(TRUE)
                     ELSE upc[x]]
        /\ hist' = [h EXCEPT ![e].releases = @ + (IF r.taken THEN 1 ELSE 0),
                             ![e].logged = d.logged]

\* the calls that wait for the network: h.bot and the language model
NetworkCalls ==
    {"SendMessage", "AnswerCallbackQuery", "EditMessage", "EditMessageKeyboard",
     "SendMessageWithKeyboard", "GetSolutionVariantsParallel"} \cup LLMCalls

\* the world the next call of a unit is made in
World ==
    [state |-> state, sessions |-> sessions, dialogs |-> dialogs, clock |-> clock,
     svc |-> dialogService, cause |-> NoError]

\* The unit of request e has made its next call c with the outcome r (err
\* telling whether the call returned an error): the world changes, the
\* calls that follow are put in front, the history is written, and after
\* the last call the handler returns and the goroutine ends, its deferred
\* cancelAnimation() run.
Advance(e, c, r, err) ==
    LET u == upd[e].user
        rest == r.next \o Tail(Calls(e))
        inHandler == hist[e].handler \in ModeHandlers
        h == [hist EXCEPT
                ![e].dispatched = TRUE,
                ![e].wrote = @ \/ r.wrote,
                ![e].sent = @ \o r.out,
                ![e].handler = IF r.enter # "" THEN r.enter ELSE @,
                ![e].llmError = @ \/ (err /\ c.call \in LLMCalls),
                ![e].cause = IF err /\ c.call \in LLMCalls THEN r.cause ELSE @,
                ![e].modeChanged =
                    @ \/ (inHandler /\ ModeOf(r.state[u]) # ModeOf(state[u])),
                ![e].trace = IF c.call \in TracedCalls THEN Append(@, c) ELSE @,
                ![e].late = @ \/ (e \in expired /\ ~err /\ c.call \in NetworkCalls),
                ![e].start = IF upc[e] = "go"
                                /\ TextOf(e) \in {EndCommand, CreatePlanCommand}
                             THEN state[u] ELSE @,
                ![e].gate = IF c.call = "IsAuthorized" /\ @ = ""
                            THEN (IF u \in sessions THEN "passed" ELSE "denied")
                            ELSE @,
                ![e].acted = @ \/ Activates(c) \/ c.call \in LLMRequests
                               \/ r.state[u].selectedModel # state[u].selectedModel,
                ![e].shown = @ + (IF r.shown THEN 1 ELSE 0),
                ![e].flagged = @ + (IF c.call = "setShowModelName" /\ c.on THEN 1 ELSE 0),
                ![e].answered = @ \/ (~err /\ c.call = "EditMessage" /\ c.msg = "answer"),
                ![e].cleared = @ \/ c.call = "getAndClearShowModelName"]
    IN  /\ state' = r.state
        /\ sessions' = r.sessions
        /\ dialogs' = r.dialogs
        /\ clock' = r.clock
        /\ todo' = [todo EXCEPT ![e] = rest]
        /\ animations' = IF rest = <<>> \/ r.anim = "stop" THEN animations \ {e}
                         ELSE IF r.anim = "start" THEN animations \cup {e}
                         ELSE animations
        /\ IF rest = <<>>
           THEN Unwind(e, h)
           ELSE /\ upc' = [upc EXCEPT ![e] = "run"]
                /\ hist' = h
                /\ UNCHANGED <<sem, sendq, crashed>>
        /\ UNCHANGED <<semCap, arrived, upd, dialogService, expired, retryVars, libVars>>

\* the unit of request e runs up to its next call, which returns without an
\* error; a call that waits for the network with the context of a unit whose
\* deadline has passed does not
Step(e) ==
    /\ upc[e] \in {"go", "run"}
    /\ LET c == Head(Calls(e))
       IN  /\ ~(e \in expired /\ c.call \in NetworkCalls /\ ~Detached(c))
           /\ Advance(e, c, Exec(c, upd[e].user, TextOf(e), World, FALSE), FALSE)

\* the unit of request e runs up to its next call, of the language model, of
\* sendThinkingAnimation or of EditMessageKeyboard, which returns an error; or
\* of any collaborator that waits for the network, after the deadline of the
\* unit has passed
Fail(e) ==
    /\ upc[e] \in {"go", "run"}
    /\ LET c == Head(Calls(e))
       IN  /\ \/ c.call \in LLMCalls
              \/ c.call = "SendMessage" /\ c.from \in ModeHandlers
              \/ c.call = "EditMessageKeyboard"
              \/ e \in expired /\ c.call \in NetworkCalls /\ ~Detached(c)
           /\ \E cause \in IF c.call \in LLMCalls THEN LLMErrors ELSE {NoError} :
                 Advance(e, c, Exec(c, upd[e].user, TextOf(e),
                                    [World EXCEPT !.cause = cause], TRUE), TRUE)

\* the unit of request e runs up to its next call, a collaborator's method,
\* which panics; the goroutine ends
Fault(e) ==
    /\ upc[e] \in {"go", "run"}
    /\ Head(Calls(e)).call \in CollaboratorCalls
    /\ todo' = [todo EXCEPT ![e] = <<>>]
    /\ animations' = animations \ {e}
    /\ Unwind(e, [hist EXCEPT ![e].dispatched = TRUE, ![e].panicked = TRUE])
    /\ UNCHANGED <<semCap, arrived, upd, state, sessions, dialogs, clock,
                   dialogService, expired, retryVars, libVars>>

\* the deadline of the context of the unit of request e passes:
\* h.processingTTL after the goroutine has made it
Expire(e) ==
    /\ upc[e] = "run"
    /\ e \notin expired
    /\ expired' = expired \cup {e}
    /\ UNCHANGED <<semCap, sem, sendq, arrived, upd, upc, todo, state, sessions,
                   hist, crashed, dialogs, clock, dialogService, animations, retryVars, libVars>>

\* the goroutine of sendThinkingAnimation for request e, at a tick:
\* h.bot.EditMessage panics, and no function of the goroutine recovers
AnimationFault(e) ==
    /\ e \in animations
    /\ crashed' = TRUE
    /\ animations' = animations \ {e}
    /\ UNCHANGED <<semCap, sem, sendq, arrived, upd, upc, todo, state, sessions,
                   hist, dialogs, clock, dialogService, expired, retryVars, libVars>>

\* the goroutine of sendThinkingAnimation for request e, at a tick:
\* h.bot.EditMessage returns an error, which is logged, and the goroutine
\* returns
AnimationError(e) ==
    /\ e \in animations
    /\ animations' = animations \ {e}
    /\ UNCHANGED <<semCap, sem, sendq, arrived, upd, upc, todo, state, sessions,
                   hist, crashed, dialogs, clock, dialogService, expired, retryVars, libVars>>

NextAdmit ==
    \/ \E e \in Events, u \in Updates : ServeHTTP(e, u)
    \/ \E e \in Events : AcquireTimeout(e)
    \/ \E e \in Events : Step(e)
    \/ \E e \in Events : Fault(e)

SpecAdmit == InitAdmit /\ [][NextAdmit]_vars

-----------------------------------------------------------------------------
(* Properties of the admission of updates *)

\* the unit of request e holds a slot: its goroutine has been started, or is
\* about to be, and has not ended
Running(e) == upc[e] \in {"go", "run"}

\* C9: an acquireSlot waits only while every slot is taken, and only the
\* end of a unit ends the wait with success; an update whose acquireSlot
\* timed out is dropped for good: it is never dispatched, never writes the
\* session map or the auth store and nothing is sent to the bot for it.  An
\* acquireSlot that finds a slot free succeeds at once, and a release either
\* leaves a slot free or admits the longest waiting update.
C9_DroppedNeverProcessed ==
    /\ [](\A e \in Events :
            /\ upc[e] = "waiting" => sem = semCap
            /\ hist[e].dropped =>
                 /\ upc[e] = "dropped"
                 /\ ~hist[e].dispatched
                 /\ ~hist[e].wrote
                 /\ hist[e].sent = <<>>)
    /\ [][\A e \in Events :
            /\ (upc[e] = "waiting" /\ upc'[e] = "dropped")
               => (sem = semCap /\ state' = state /\ sessions' = sessions)
            /\ (upc[e] = "waiting" /\ upc'[e] \notin {"waiting", "dropped"})
               => /\ upc'[e] = "go"
                  /\ e = Head(sendq)
                  /\ \E x \in Events : Running(x) /\ upc'[x] = "done"
            /\ (upc[e] = "new" /\ upc'[e] \notin {"new", "ignored"} /\ sem < semCap)
               => (upc'[e] = "go" /\ sem' = sem + 1)
            /\ (Running(e) /\ upc'[e] = "done")
               => \/ sem' < semCap
                  \/ sendq # <<>> /\ upc'[Head(sendq)] = "go"
         ]_vars

\* a dropped update, and a later update that was admitted and dispatched
C9_Witness ==
    \E d \in Events, a \in Events :
        /\ d < a
        /\ upc[d] = "dropped" /\ hist[d].dropped
        /\ hist[a].dispatched
        /\ sem = semCap

\* C10: the slots taken are as many as the units that have been admitted
\* and have not ended, and never more than the capacity of h.sem; a unit
\* that has ended, by a return or by a panic, has released one slot, once,
\* and no other request has released any.
C10_SlotsMatchUnits ==
    /\ sem = Cardinality({e \in Events : Running(e)})
    /\ sem <= semCap
    /\ \A e \in Events : hist[e].releases = (IF upc[e] = "done" THEN 1 ELSE 0)

\* a unit that ended by a panic and one that ended by a return, both with
\* their slot released, while the pool is full again
C10_Witness ==
    \E e1 \in Events, e2 \in Events :
        /\ upc[e1] = "done" /\ hist[e1].panicked /\ hist[e1].releases = 1
        /\ upc[e2] = "done" /\ ~hist[e2].panicked /\ hist[e2].releases = 1
        /\ sem = semCap


\* the unit of request e panics in this step
Panics(e) == ~hist[e].panicked /\ hist'[e].panicked

\* C11: a panic raised in dispatch or handleCallbackQuery inside an admitted
\* unit is recovered in that unit and the slot is released afterwards.  The
\* step in which the unit panics ends the unit and not the process, and
\* receives from h.sem once: one slot fewer is taken and a slot is free, or,
\* when updates are blocked in acquireSlot, the first of them gets the slot
\* and is admitted.  A unit that has panicked has ended.
C11_PanicRecoveredSlotReleased ==
    /\ [](\A e \in Events : hist[e].panicked =>
              upc[e] = "done" /\ hist[e].releases = 1 /\ ~crashed)
    /\ [][\A e \in Events : Panics(e) =>
              /\ upc'[e] = "done"
              /\ ~crashed'
              /\ hist'[e].releases = 1
              /\ IF sendq = <<>>
                 THEN sem' = sem - 1 /\ sem' < semCap
                 ELSE /\ sem' = sem
                      /\ sendq' = Tail(sendq)
                      /\ upc'[Head(sendq)] = "go"]_vars

\* a unit has panicked and, with one slot only, the unit of a later update
\* has run to its end after it
C11_Witness ==
    /\ semCap = 1
    /\ \E e1, e2 \in Events :
          /\ e1 < e2
          /\ hist[e1].panicked
          /\ upc[e2] = "done"
          /\ hist[e2].dispatched
          /\ ~hist[e2].panicked

\* C13: when a panic occurs inside an admitted unit, the fault is logged
\* and the user receives a generic failure response for that event: the
\* step in which the unit panics writes the log line and sends a message.
C13_PanicLoggedAndUserTold ==
    [][\A e \in Events : Panics(e) =>
          /\ hist'[e].logged
          /\ Len(hist'[e].sent) > Len(hist[e].sent)]_vars


-----------------------------------------------------------------------------
(* webhook.go: the modes of a session *)

(***************************************************************************)
(* The handler as cmd/app/main.go makes it, with MaxWorkers left at zero,  *)
(* with or without a dialog service, and with the sessions the file store  *)
(* of the auth service has kept.  The user sends the next update when the  *)
(* one before has been processed, so that one unit runs at a time.  The    *)
(* language model and sendThinkingAnimation may return an error.           *)
(***************************************************************************)

\* Message.Text: the commands of the modes, /login, /logout, the password,
\* a text, a blank
ModeTexts ==
    { AskCommand, AskJSONCommand, CreatePlanCommand, EndCommand, LoginCommand,
      LogoutCommand, password, <<"x">>, <<" ">> }

\* CallbackQuery.Data: the first button of the keyboard of /solve
ModeCallbackData == { SolveModelAction \o <<":", "0">> }

ModeUpdates ==
    { [kind |-> "message", user |-> u, text |-> t] : u \in Users, t \in ModeTexts }
    \cup { [kind |-> "callback", user |-> u, text |-> d] :
              u \in Users, d \in ModeCallbackData }

InitModes ==
    /\ RetryIdle
    /\ NoLibrary
    /\ policy = CHOOSE p \in Policies : p.MaxAttempts = 0
    /\ semCap = NewWebhookHandler(0)
    /\ sem = 0
    /\ sendq = <<>>
    /\ arrived = 0
    /\ upd = [e \in Events |-> NoUpdate]
    /\ upc = [e \in Events |-> "new"]
    /\ todo = [e \in Events |-> <<>>]
    /\ state = [u \in Users |-> NoState]
    /\ sessions \in SUBSET Users
    /\ hist = [e \in Events |-> NoHistory]
    /\ crashed = FALSE
    /\ dialogs = {}
    /\ clock = 0
    /\ dialogService \in BOOLEAN
    /\ animations = {}
    /\ expired = {}

\* no update is being processed or waits for a slot
Quiet == \A e \in Events : upc[e] \notin {"waiting", "go", "run"}

NextModes ==
    \/ \E e \in Events, u \in ModeUpdates : Quiet /\ ServeHTTP(e, u)
    \/ \E e \in Events : Step(e)
    \/ \E e \in Events : Fail(e)

SpecModes == InitModes /\ [][NextModes]_vars

\* how many of the four mode flags of the session s are set
ModesSet(s) ==
    (IF s.askMode THEN 1 ELSE 0) + (IF s.askJSONMode THEN 1 ELSE 0)
    + (IF s.dialogMode # "" THEN 1 ELSE 0) + (IF s.solveMode THEN 1 ELSE 0)

\* C15: in every reachable state, for every user, at most one of askMode,
\* askJSONMode, dialogMode # "" and solveMode is set.
C15_AtMostOneMode == \A u \in Users : ModesSet(state[u]) <= 1


\* the unit of request e ends in this step
Ends(e) == upc[e] \in {"go", "run"} /\ upc'[e] = "done"

\* C16: when the handler of an active mode (ask, ask_json, dialog) gets an
\* error from the language model or the dialog service, the mode fields of
\* the user are the same after the handler has returned as before it ran:
\* no step the unit makes inside the handler changes them, and at its end
\* handleText would choose the same handler again.
C16_ModeKeptOnLLMError ==
    /\ [](\A e \in Events : hist[e].llmError =>
              hist[e].handler \in ModeHandlers /\ ~hist[e].modeChanged)
    /\ [][\A e \in Events : (Ends(e) /\ hist'[e].llmError) =>
              handlerOf(state'[upd[e].user]) = hist'[e].handler]_vars

\* a dialog message whose request of the model failed has been processed,
\* and the dialog mode with its id is still there
C16_Witness ==
    \E e \in Events :
        /\ upc[e] = "done"
        /\ hist[e].llmError
        /\ hist[e].handler = "handleDialogMessage"
        /\ hist[e].sent = <<"thinking", "llm error">>
        /\ state[upd[e].user].dialogMode = dialogModeCreatePlan
        /\ state[upd[e].user].dialogID # 0

\* the errors of the chain of err, from err down
RECURSIVE Chain(_)
Chain(err) ==
    CASE err.kind = "wrap" -> <<err>> \o Chain(err.inner)
      [] err.kind = "exhausted" -> <<err>> \o Chain(err.cause)
      [] OTHER -> <<err>>

HasExhausted(err) == \E i \in 1..Len(Chain(err)) : Chain(err)[i].kind = "exhausted"

\* the message with the retry button is among what the unit of e has sent
Offered(e) == \E i \in 1..Len(hist[e].sent) : hist[e].sent[i] = "retry button"

\* C24 as stated: when a request of the language model fails in ask, ask_json
\* or dialog mode, the unit offers the retry button if and only if the chain of
\* the error holds a retry.ExhaustedError; a failure that is not retried, a
\* cancellation and a passed deadline give the text of the plain error and no
\* button.
C24_RetryButtonIffExhausted ==
    \A e \in Events :
        (upc[e] = "done" /\ hist[e].llmError) =>
            /\ Offered(e) = HasExhausted(hist[e].cause)
            /\ ~HasExhausted(hist[e].cause) => hist[e].sent = <<"thinking", "llm error">>

\* the retries were used up, the unit has put the retry button into the
\* thinking message, and the mode is still on
C24_Witness ==
    \E e \in Events :
        /\ upc[e] = "done"
        /\ hist[e].llmError
        /\ hist[e].cause.kind = "wrap"
        /\ hist[e].sent = <<"thinking", "retry button">>

\* the ids ClearDialog was called with by the unit of request e
Cleared(h) ==
    LET t == SelectSeq(h.trace, LAMBDA c : c.call = "ClearDialog")
    IN  [i \in 1..Len(t) |-> t[i].id]

\* the fields of a session: all of userState, not whether the map has it
Fields(s) == [s EXCEPT !.ok = TRUE]

\* C19 as stated: after /end has been processed with no other event of the
\* user under way, no mode is active; if a dialog was active, ClearDialog
\* was called with its id and dialogMode and dialogID are empty; if no mode
\* was active, no session field has changed.
C19_EndLeavesIdle ==
    [][\A e \in Events : (Ends(e) /\ TextOf(e) = EndCommand /\ ~hist'[e].panicked) =>
          LET s == state'[upd[e].user]
              s0 == hist'[e].start
          IN  /\ ModesSet(s) = 0
              /\ s0.dialogMode # "" =>
                    Cleared(hist'[e]) = <<s0.dialogID>> /\ s.dialogID = 0
              /\ ModesSet(s0) = 0 => Fields(s) = Fields(s0)]_vars

\* C19 (amended): after /end has been processed with no other event of the
\* user under way, no mode is active and dialogMode and dialogID are empty;
\* if a dialog was active and a dialog service is configured, ClearDialog
\* was called once, with its id; if no mode was active, no session field
\* but the pending command, which is cleared, has changed.
C19_EndLeavesIdleButPending ==
    [][\A e \in Events : (Ends(e) /\ TextOf(e) = EndCommand /\ ~hist'[e].panicked) =>
          LET s == state'[upd[e].user]
              s0 == hist'[e].start
          IN  /\ ModesSet(s) = 0
              /\ s.dialogMode = "" /\ s.dialogID = 0
              /\ s.pending = ""
              /\ Cleared(hist'[e]) =
                    IF s0.dialogMode # "" /\ dialogService THEN <<s0.dialogID>>
                    ELSE <<>>
              /\ ModesSet(s0) = 0 => Fields(s) = [Fields(s0) EXCEPT !.pending = ""]]_vars

\* /end has been processed for a user with a dialog and one more mode on:
\* ClearDialog was called with the id, and no mode is left
C19_Witness ==
    \E e \in Events :
        /\ upc[e] = "done"
        /\ TextOf(e) = EndCommand
        /\ hist[e].start.dialogMode = dialogModeCreatePlan
        /\ ModesSet(hist[e].start) = 2
        /\ Cleared(hist[e]) = <<hist[e].start.dialogID>>
        /\ ModesSet(state[upd[e].user]) = 0
        /\ hist[e].sent = <<"dialog ended">>

\* the unit of request e makes the call popPending in this step, and a
\* login is pending
PopsLogin(e) ==
    /\ upc[e] \in {"go", "run"}
    /\ Head(Calls(e)).call = "popPending"
    /\ state[upd[e].user].pending = pendingCommandLogin
    /\ hist'[e].dispatched

\* C20: after /login without an argument the next free text of the user is
\* passed to Login as the password and to no mode handler, and the pending
\* marker is cleared whether the check succeeds or fails, so that the text
\* after it is routed normally.  The popPending of that text clears the
\* marker and leaves Login(text) as the one call to make; such a unit ends
\* with the answer of handleLogin and the marker still clear, and the unit
\* of a text that finds no marker goes to handleText.  An empty text
\* leaves the marker as it is.
C20_PendingLoginTakesNextText ==
    /\ [](\A e \in Events : (hist[e].handler = "handlePending" /\ upc[e] = "done") =>
              /\ hist[e].sent \in {<<"logged in">>, <<"login failed">>}
              /\ (hist[e].sent = <<"logged in">>) = (TextOf(e) = password))
    /\ [][\A e \in Events :
              /\ PopsLogin(e) =>
                    /\ todo'[e] = <<Login(TextOf(e))>>
                    /\ hist'[e].handler = "handlePending"
                    /\ state'[upd[e].user].pending = ""
              /\ (Ends(e) /\ hist'[e].handler = "handlePending") =>
                    state'[upd[e].user].pending = ""
              /\ (upc[e] \in {"go", "run"} /\ Head(Calls(e)).call = "popPending"
                    /\ state[upd[e].user].pending = "" /\ hist'[e].dispatched) =>
                    todo'[e] = handleText
              /\ (Ends(e) /\ TextOf(e) = <<>>) =>
                    state'[upd[e].user].pending = state[upd[e].user].pending]_vars

\* with the ask mode on, the text after /login was a wrong password: it went
\* to Login, the mode handler did not run, and the marker is clear
C20_Witness ==
    \E e \in Events :
        /\ upc[e] = "done"
        /\ hist[e].handler = "handlePending"
        /\ hist[e].sent = <<"login failed">>
        /\ state[upd[e].user].askMode
        /\ state[upd[e].user].pending = ""


\* the calls of ClearDialog and setDialogMode the unit with history h has
\* made, in their order, as pairs of the call and the dialog id
DialogCalls(h) == [i \in 1..Len(h.trace) |-> <<h.trace[i].call, h.trace[i].id>>]

-----------------------------------------------------------------------------
(* webhook.go and the dialog service: updates of one user side by side *)

(***************************************************************************)
(* The handler with a dialog service and a user whose session the file     *)
(* store has kept.  The user sends /create_plan, texts and /end, and sends *)
(* an update while the one before is still being processed: two units at   *)
(* most run side by side, each advancing by one call at a time.            *)
(***************************************************************************)

DialogTexts == { CreatePlanCommand, <<"x">>, EndCommand }

DialogUpdates ==
    { [kind |-> "message", user |-> u, text |-> t] : u \in Users, t \in DialogTexts }

InitDialog ==
    /\ RetryIdle
    /\ NoLibrary
    /\ policy = CHOOSE p \in Policies : p.MaxAttempts = 0
    /\ semCap = NewWebhookHandler(0)
    /\ sem = 0
    /\ sendq = <<>>
    /\ arrived = 0
    /\ upd = [e \in Events |-> NoUpdate]
    /\ upc = [e \in Events |-> "new"]
    /\ todo = [e \in Events |-> <<>>]
    /\ state = [u \in Users |-> NoState]
    /\ sessions = Users
    /\ hist = [e \in Events |-> NoHistory]
    /\ crashed = FALSE
    /\ dialogs = {}
    /\ clock = 0
    /\ dialogService = TRUE
    /\ animations = {}
    /\ expired = {}

\* at most one update is being processed
OneUnderWay == Cardinality({e \in Events : upc[e] \in {"go", "run"}}) <= 1

NextDialog ==
    \/ \E e \in Events, u \in DialogUpdates : OneUnderWay /\ ServeHTTP(e, u)
    \/ \E e \in Events : Step(e)

SpecDialog == InitDialog /\ [][NextDialog]_vars

\* the dialog ids the sessions hold
SessionDialogs == { state[u].dialogID : u \in Users } \ {0}

\* C18: after any interleaving of events of one user (/create_plan, dialog
\* messages, /end), every dialog id that has a history in the dialog store
\* is the id stored in the session of the user: when all the events have
\* been processed, the store holds no history of an abandoned dialog.
C18_NoAbandonedHistory == Quiet => dialogs \subseteq SessionDialogs


-----------------------------------------------------------------------------
(* webhook.go: panics, deadlines and the goroutines a handler starts *)

(***************************************************************************)
(* The handler with a dialog service and a user whose session the file     *)
(* store has kept.  The user switches the ask mode on, picks a model for   *)
(* /solve, and sends texts, one update at a time.  A collaborator call may *)
(* panic or, where the handler looks at it, return an error; the deadline  *)
(* of a unit may pass while it runs; the goroutine of the thinking         *)
(* animation calls h.bot.EditMessage at its ticks, which may panic or      *)
(* return an error.  The goroutines of runSolveStepAnimation and of        *)
(* handleSolveRetryCallback are left out.  A process that a panic has      *)
(* ended takes no step.                                                    *)
(***************************************************************************)

FaultTexts == { AskCommand, <<"x">> }

FaultUpdates ==
    { [kind |-> "message", user |-> u, text |-> t] : u \in Users, t \in FaultTexts }
    \cup { [kind |-> "callback", user |-> u, text |-> d] :
              u \in Users, d \in ModeCallbackData }

InitFaults ==
    /\ RetryIdle
    /\ NoLibrary
    /\ policy = CHOOSE p \in Policies : p.MaxAttempts = 0
    /\ semCap = NewWebhookHandler(0)
    /\ sem = 0
    /\ sendq = <<>>
    /\ arrived = 0
    /\ upd = [e \in Events |-> NoUpdate]
    /\ upc = [e \in Events |-> "new"]
    /\ todo = [e \in Events |-> <<>>]
    /\ state = [u \in Users |-> NoState]
    /\ sessions = Users
    /\ hist = [e \in Events |-> NoHistory]
    /\ crashed = FALSE
    /\ dialogs = {}
    /\ clock = 0
    /\ dialogService = TRUE
    /\ animations = {}
    /\ expired = {}

NextFaults ==
    \/ \E e \in Events, u \in FaultUpdates : ~crashed /\ Quiet /\ ServeHTTP(e, u)
    \/ \E e \in Events : ~crashed /\ Step(e)
    \/ \E e \in Events : ~crashed /\ Fail(e)
    \/ \E e \in Events : ~crashed /\ Fault(e)
    \/ \E e \in Events : ~crashed /\ Expire(e)
    \/ \E e \in Events : ~crashed /\ AnimationFault(e)
    \/ \E e \in Events : ~crashed /\ AnimationError(e)

SpecFaults == InitFaults /\ [][NextFaults]_vars

\* C12: no runtime fault raised by code that runs on behalf of an admitted
\* event ends the process, the goroutines the event starts included.
C12_NoFaultEndsTheProcess == ~crashed

\* C14: every sleep and network operation of an admitted event is a child
\* of its processing-timeout context, and fails promptly once the deadline
\* has passed: no unit completes a call that waits for the network after
\* its deadline.
C14_NothingCompletesPastTheDeadline ==
    \A e \in Events : ~hist[e].late

-----------------------------------------------------------------------------
(* webhook.go: the authorization of a unit, and the selected model *)

(***************************************************************************)
(* The handler with a dialog service and the sessions the file store of    *)
(* the auth service has kept.  The user logs in and out, switches modes    *)
(* on, asks, and chooses a model with /model and its buttons, and sends    *)
(* an update while the one before is still being processed: two units at   *)
(* most run side by side, each advancing by one call at a time.            *)
(***************************************************************************)

GateTexts ==
    { AskCommand, CreatePlanCommand, ModelCommand, LogoutCommand,
      LoginCommand \o <<" ">> \o password, <<"x">> }

\* CallbackQuery.Data: the first button of the keyboard of /model
GateCallbackData == { ModelAction \o <<":", "0">> }

GateUpdates ==
    { [kind |-> "message", user |-> u, text |-> t] : u \in Users, t \in GateTexts }
    \cup { [kind |-> "callback", user |-> u, text |-> d] :
              u \in Users, d \in GateCallbackData }

InitGate ==
    /\ RetryIdle
    /\ NoLibrary
    /\ policy = CHOOSE p \in Policies : p.MaxAttempts = 0
    /\ semCap = NewWebhookHandler(0)
    /\ sem = 0
    /\ sendq = <<>>
    /\ arrived = 0
    /\ upd = [e \in Events |-> NoUpdate]
    /\ upc = [e \in Events |-> "new"]
    /\ todo = [e \in Events |-> <<>>]
    /\ state = [u \in Users |-> NoState]
    /\ sessions \in SUBSET Users
    /\ hist = [e \in Events |-> NoHistory]
    /\ crashed = FALSE
    /\ dialogs = {}
    /\ clock = 0
    /\ dialogService = TRUE
    /\ animations = {}
    /\ expired = {}

NextGate ==
    \/ \E e \in Events, u \in GateUpdates : OneUnderWay /\ ServeHTTP(e, u)
    \/ \E e \in Events : Step(e)

SpecGate == InitGate /\ [][NextGate]_vars

\* C25: a unit whose user was not authorized when the handler that
\* dispatches its update asked h.auth (handleCommand for /ask, /ask_json,
\* /create_plan, /solve and /model, handleText for a text,
\* handleCallbackQuery for a button) switches no mode on, does not change
\* the selected model and has no request made of the language model; nor
\* does a unit that has not asked h.auth.
C25_UnauthorizedActivatesNothing ==
    \A e \in Events : hist[e].acted => hist[e].gate = "passed"

\* a unit that was refused has ended, after one that was let in has switched
\* a mode on and the user has logged out
C25_Witness ==
    \E e, d \in Events :
        /\ upc[e] = "done" /\ hist[e].gate = "denied" /\ ~hist[e].acted
        /\ TextOf(e) \in {<<"x">>, ModelCommand} \cup GateCallbackData
        /\ hist[d].acted /\ d < e
        /\ state[upd[e].user].dialogMode # ""

(***************************************************************************)
(* The handler with a dialog service and a user whose session the file     *)
(* store has kept.  The user asks with /ask, plans with /create_plan and    *)
(* texts, and presses the buttons of the keyboard of /model, and sends an  *)
(* update while the one before is still being processed.                   *)
(***************************************************************************)

ModelTexts == { AskCommand \o <<" ", "q">>, CreatePlanCommand, <<"x">> }

\* CallbackQuery.Data: the buttons of the keyboard of /model
ModelCallbackData == { ModelAction \o <<":">> \o d : d \in ModelIndexes }

ModelUpdates ==
    { [kind |-> "message", user |-> u, text |-> t] : u \in Users, t \in ModelTexts }
    \cup { [kind |-> "callback", user |-> u, text |-> d] :
              u \in Users, d \in ModelCallbackData }

NextModel ==
    \/ \E e \in Events, u \in ModelUpdates : OneUnderWay /\ ServeHTTP(e, u)
    \/ \E e \in Events : Step(e)

SpecModel == InitDialog /\ [][NextModel]_vars

\* how often the units up to n have had true from getAndClearShowModelName,
\* and how often they have set the flag
RECURSIVE ShownBy(_)
ShownBy(n) == IF n = 0 THEN 0 ELSE hist[n].shown + ShownBy(n - 1)

RECURSIVE FlaggedBy(_)
FlaggedBy(n) == IF n = 0 THEN 0 ELSE hist[n].flagged + FlaggedBy(n - 1)

\* the times getAndClearShowModelName can still return true
Pending == Cardinality({u \in Users : state[u].showModelName})

\* getAndClearShowModelName has returned true, and can still return true,
\* at most once for each time the flag was set
OneShot == ShownBy(NEvents) + Pending <= FlaggedBy(NEvents)

\* C26: the flag showModelName is one-shot: getAndClearShowModelName returns
\* true at most once for each time a model change has set the flag, also
\* when two answers of the user are completed side by side; and a unit that
\* has delivered an answer of the language model has called
\* getAndClearShowModelName, which leaves the flag false.
C26_FlagOneShot ==
    /\ OneShot
    /\ \A e \in Events : hist[e].answered => hist[e].cleared

\* two answers were completed side by side after a model was chosen, and
\* one of them had true from getAndClearShowModelName
C26_Witness ==
    \E e, d \in Events :
        /\ e # d
        /\ hist[e].answered /\ hist[e].shown = 1
        /\ hist[d].answered /\ hist[d].shown = 0 /\ hist[d].cleared
        /\ upc[e] = "done" /\ upc[d] = "done"

-----------------------------------------------------------------------------
(* splitMessage (internal/telegram/webhook.go), taken on its own.  A text  *)
(* is a sequence of characters; the characters of the model are one byte   *)
(* each, so that len() and the indexes of the program, which count bytes,  *)
(* count characters here.                                                   *)

MaxTextLen == 4
MaxPartLen == 3

TextChars == {"a", "b", " ", "\n"}
Texts == UNION {[1..n -> TextChars] : n \in 0..MaxTextLen}

\* strings.TrimLeft(s, cutset)
RECURSIVE TrimLeftCutset(_, _)
TrimLeftCutset(s, cutset) ==
    IF s # <<>> /\ Head(s) \in cutset THEN TrimLeftCutset(Tail(s), cutset) ELSE s

\* a changed search: a text without a blank is cut one byte past the limit
cutIndex_pastLimit(remaining, maxLength) ==
    LET found == {i \in 0..(maxLength - 1) : remaining[i + 1] \in {" ", "\n"}}
    IN  IF found = {} THEN maxLength + 1
        ELSE CHOOSE i \in found : \A j \in found : j <= i

\* cutIndex := maxLength; for i := maxLength - 1; i >= 0; i-- { if remaining[i] is
\* a space or a newline { cutIndex = i; break } }  (indexes count from 0)
cutIndex(remaining, maxLength) ==
    LET found == {i \in 0..(maxLength - 1) : remaining[i + 1] \in {" ", "\n"}}
    IN  IF found = {} THEN maxLength
        ELSE CHOOSE i \in found : \A j \in found : j <= i

InitSplit ==
    /\ RetryIdle
    /\ policy = CHOOSE p \in Policies : p.MaxAttempts = 0
    /\ NoWebhook
    /\ store = NoStore
    /\ auth = NoAuth
    /\ bot = NoBot
    /\ chat = <<>>
    /\ mu = NoMutex
    /\ \E text \in Texts, maxLength \in 1..MaxPartLen :
           split = [NoSplit EXCEPT !.pc = "call", !.text = text, !.maxLength = maxLength]

\* if len(text) <= maxLength { return []string{text} };  remaining := text
splitMessage ==
    /\ split.pc = "call"
    /\ split' = IF Len(split.text) <= split.maxLength
                 THEN [split EXCEPT !.pc = "done", !.parts = <<split.text>>]
                 ELSE [split EXCEPT !.pc = "loop", !.remaining = split.text]
    /\ UNCHANGED splitElse

\* one turn of for len(remaining) > maxLength { ... }
splitMessageLoop ==
    /\ split.pc = "loop"
    /\ Len(split.remaining) > split.maxLength
    /\ LET cut == cutIndex(split.remaining, split.maxLength)
            part == SubSeq(split.remaining, 1, cut)
            rest == SubSeq(split.remaining, cut + 1, Len(split.remaining))
       IN  split' = [split EXCEPT !.parts = Append(@, TrimSpace(part)),
                                  !.remaining = TrimLeftCutset(rest, {" ", "\n"})]
    /\ UNCHANGED splitElse

\* if remaining != "" { parts = append(parts, remaining) };  return parts
splitMessageReturn ==
    /\ split.pc = "loop"
    /\ Len(split.remaining) <= split.maxLength
    /\ split' = [split EXCEPT !.pc = "done",
                              !.parts = IF split.remaining # <<>>
                                        THEN Append(@, split.remaining) ELSE @]
    /\ UNCHANGED splitElse

NextSplit == splitMessage \/ splitMessageLoop \/ splitMessageReturn

\* the function is sequential code: it takes its next step as long as it has one
SpecSplit == InitSplit /\ [][NextSplit]_vars /\ WF_vars(NextSplit)

\* strings.Join(parts, " ")
RECURSIVE Join(_)
Join(parts) ==
    IF parts = <<>> THEN <<>>
    ELSE IF Len(parts) = 1 THEN parts[1]
    ELSE parts[1] \o <<" ">> \o Join(Tail(parts))

\* the text with every run of whitespace replaced by one space
RECURSIVE Collapse(_)
Collapse(text) ==
    IF text = <<>> THEN <<>>
    ELSE IF IsSpace(Head(text)) THEN <<" ">> \o Collapse(TrimLeft(text))
    ELSE <<Head(text)>> \o Collapse(Tail(text))

\* the text without its whitespace
RECURSIVE Letters(_)
Letters(text) ==
    IF text = <<>> THEN <<>>
    ELSE IF IsSpace(Head(text)) THEN Letters(Tail(text))
    ELSE <<Head(text)>> \o Letters(Tail(text))

RECURSIVE Concat(_)
Concat(parts) == IF parts = <<>> THEN <<>> ELSE parts[1] \o Concat(Tail(parts))

PartsFit == \A i \in 1..Len(split.parts) : Len(split.parts[i]) <= split.maxLength

\* C30 as stated: for every text and every maxLength >= 1 splitMessage returns,
\* every part it returns is at most maxLength long, and the parts joined by
\* single spaces are the text with every run of whitespace made one space.
C30_SplitJoinsBack ==
    /\ <>(split.pc = "done")
    /\ [](split.pc = "done" =>
             /\ PartsFit
             /\ Join(split.parts) = Collapse(split.text))

\* C30 amended: for every text and every maxLength >= 1 splitMessage returns,
\* every part it returns is at most maxLength long, and the parts hold the
\* characters of the text other than whitespace, all of them and in their order
\* (a text that fits is returned as it is; a word longer than maxLength is cut
\* inside; whitespace is dropped where a cut falls and kept everywhere else).
C30_SplitKeepsLetters ==
    /\ <>(split.pc = "done")
    /\ [](split.pc = "done" =>
             /\ PartsFit
             /\ Letters(Concat(split.parts)) = Letters(split.text)
             /\ Len(split.text) <= split.maxLength => split.parts = <<split.text>>)

\* a text without a blank has been cut into parts of the full length
C30_Witness ==
    /\ split.pc = "done"
    /\ Len(split.parts) >= 2
    /\ Len(split.parts[1]) = split.maxLength
    /\ Letters(split.text) = split.text

-----------------------------------------------------------------------------
(* MemoryDialogStore (package llm), taken on its own.  Times are readings  *)
(* of one clock that never runs backwards; a message is its role.  Each    *)
(* method runs under s.mu from its first statement to its return, so a     *)
(* call is one step.                                                        *)

MaxTime == 3
MaxTTL == 2
MaxHistory == 2

DialogIDs == {"d1", "d2"}
Messages == {<<>>, <<"user", "assistant">>}

\* nothing has been called yet
NoStoreCall ==
    [op |-> "", id |-> "", at |-> 0, before |-> <<>>, found |-> FALSE, deleted |-> 0]

\* NewMemoryDialogStore(ttl)
NewMemoryDialogStore(ttl) ==
    [ttl |-> ttl, now |-> 0, dialogs |-> <<>>,
     called |-> [id \in DialogIDs |-> 0], last |-> NoStoreCall]

InitStore ==
    /\ RetryIdle
    /\ policy = CHOOSE p \in Policies : p.MaxAttempts = 0
    /\ NoWebhook
    /\ split = NoSplit
    /\ auth = NoAuth
    /\ bot = NoBot
    /\ chat = <<>>
    /\ mu = NoMutex
    /\ \E ttl \in 0..MaxTTL : store = NewMemoryDialogStore(ttl)

\* a changed comparison: a dialog is given up at the age of ttl already
olderThanTTL_orEqual(t, lastTouched, ttl) == t - lastTouched >= ttl

\* time.Since(data.lastTouched) > s.ttl;  now.Sub(data.lastTouched) > s.ttl
olderThanTTL(t, lastTouched, ttl) == t - lastTouched > ttl

\* delete(s.dialogs, dialogID)
delete(m, ids) == [id \in DOMAIN m \ ids |-> m[id]]

\* s.dialogs[dialogID] = data
put(m, dialogID, data) ==
    [id \in DOMAIN m \cup {dialogID} |-> IF id = dialogID THEN data ELSE m[id]]

StoreCall(op, dialogID, at, found, deleted) ==
    [op |-> op, id |-> dialogID, at |-> at, before |-> store.dialogs,
     found |-> found, deleted |-> deleted]

\* func (s *MemoryDialogStore) Get: the store after the call
StoreGet(dialogID) ==
    LET ok == dialogID \in DOMAIN store.dialogs
        gone == /\ ok
                /\ store.ttl > 0
                /\ olderThanTTL(store.now, store.dialogs[dialogID].lastTouched, store.ttl)
    IN  [store EXCEPT
            !.dialogs = IF gone THEN delete(@, {dialogID}) ELSE @,
            !.last = StoreCall("Get", dialogID, store.now, ok /\ ~gone, 0)]

Get(dialogID) ==
    /\ store' = StoreGet(dialogID)
    /\ UNCHANGED storeElse

\* func (s *MemoryDialogStore) Append: the store after the call
Appended(dialogID, messages) ==
    LET ok == dialogID \in DOMAIN store.dialogs
        data == IF ok THEN store.dialogs[dialogID]
                ELSE [messages |-> <<>>, lastTouched |-> store.now]
        data2 == [messages |-> data.messages \o messages, lastTouched |-> store.now]
    IN  [store EXCEPT
            !.dialogs = IF messages = <<>> THEN @ ELSE put(@, dialogID, data2),
            !.called[dialogID] = store.now,
            !.last = StoreCall("Append", dialogID, store.now, ok, 0)]

StoreAppend(dialogID, messages) ==
    /\ IF messages = <<>> THEN TRUE
       ELSE Len(Appended(dialogID, messages).dialogs[dialogID].messages) <= MaxHistory
    /\ store' = Appended(dialogID, messages)
    /\ UNCHANGED storeElse

\* func (s *MemoryDialogStore) Set
StoreSet(dialogID, messages) ==
    /\ store' = [store EXCEPT
                    !.dialogs = put(@, dialogID,
                                    [messages |-> messages, lastTouched |-> store.now]),
                    !.called[dialogID] = store.now,
                    !.last = StoreCall("Set", dialogID, store.now,
                                       dialogID \in DOMAIN store.dialogs, 0)]
    /\ UNCHANGED storeElse

\* func (s *MemoryDialogStore) Delete
StoreDelete(dialogID) ==
    /\ store' = [store EXCEPT
                    !.dialogs = delete(@, {dialogID}),
                    !.last = StoreCall("Delete", dialogID, store.now,
                                       dialogID \in DOMAIN store.dialogs, 0)]
    /\ UNCHANGED storeElse

\* func (s *MemoryDialogStore) ClearExpired
ClearExpired(now) ==
    LET gone == IF store.ttl = 0 THEN {}
                ELSE {id \in DOMAIN store.dialogs :
                         olderThanTTL(now, store.dialogs[id].lastTouched, store.ttl)}
    IN  /\ store' = [store EXCEPT
                        !.dialogs = delete(@, gone),
                        !.last = StoreCall("ClearExpired", "", now, FALSE, Cardinality(gone))]
        /\ UNCHANGED storeElse

\* the clock goes on
StoreTick ==
    /\ store.now < MaxTime
    /\ store' = [store EXCEPT !.now = @ + 1]
    /\ UNCHANGED storeElse

NextStore ==
    \/ \E dialogID \in DialogIDs : Get(dialogID)
    \/ \E dialogID \in DialogIDs, messages \in Messages : StoreAppend(dialogID, messages)
    \/ \E dialogID \in DialogIDs, messages \in Messages : StoreSet(dialogID, messages)
    \/ \E dialogID \in DialogIDs : StoreDelete(dialogID)
    \/ \E now \in 0..MaxTime : ClearExpired(now)
    \/ StoreTick

SpecStore == InitStore /\ [][NextStore]_vars

\* the dialogs of m that are not in ids, as they are in m
Kept(m, ids) == [id \in DOMAIN m \ ids |-> m[id]]

\* C28: with ttl > 0, a Get of a dialog whose last Append or Set is more than ttl
\* ago deletes the dialog and reports it as not found, and ClearExpired(now)
\* removes the dialogs with now - lastTouched > ttl, no other, leaves the rest as
\* they are and returns how many it removed; with ttl = 0 neither Get nor
\* ClearExpired removes a dialog.
C28_StoreExpiry ==
    LET l == store.last
    IN  /\ ( /\ l.op = "Get"
             /\ store.ttl > 0
             /\ l.id \in DOMAIN l.before
             /\ l.at - store.called[l.id] > store.ttl )
           => /\ ~l.found
              /\ store.dialogs = Kept(l.before, {l.id})
        /\ (l.op = "ClearExpired" /\ store.ttl > 0)
           => LET old == {id \in DOMAIN l.before :
                             l.at - l.before[id].lastTouched > store.ttl}
              IN  /\ store.dialogs = Kept(l.before, old)
                  /\ l.deleted = Cardinality(old)
        /\ (l.op \in {"Get", "ClearExpired"} /\ store.ttl = 0)
           => /\ store.dialogs = l.before
              /\ l.deleted = 0
              /\ l.op = "Get" => l.found = (l.id \in DOMAIN l.before)

\* ClearExpired has removed one dialog and left a younger one
C28_Witness ==
    /\ store.last.op = "ClearExpired"
    /\ store.last.deleted = 1
    /\ store.dialogs # <<>>
    /\ store.ttl > 0

-----------------------------------------------------------------------------
(* auth.Service (package auth), taken on its own.  The source holds the    *)
(* service twice: internal/auth/service.go, and a second text of the same  *)
(* file in which a ttl of zero or less makes sessions eternal.  A build    *)
(* has one of the two; impl says which.  The Store is a FileStore, which   *)
(* reads at its start the sessions an earlier run of the program saved,    *)
(* whatever the ttl of that run was.                                        *)

AuthUsers == {1, 2}
Impls == {"service.go", "ttl-aware"}

\* time.Time{}, the zero time, earlier than every reading of the clock
ZeroTime == -1

\* Session.ExpiresAt as Login computes it
ExpiresAt(impl, now, ttl) ==
    IF impl = "service.go" THEN now + ttl
    ELSE IF ttl > 0 THEN now + ttl ELSE ZeroTime

\* what IsAuthorized makes of a stored session: it is good, or it is deleted
SessionGood(impl, session, now, ttl) ==
    IF impl = "service.go" THEN ~(now > session.ExpiresAt)
    ELSE IF ttl <= 0 THEN TRUE
    ELSE ~(session.ExpiresAt = ZeroTime \/ now > session.ExpiresAt)

NoAuthCall == [op |-> "", user |-> 0, at |-> 0, before |-> <<>>, ok |-> FALSE]

\* NewFileStore(path) with the sessions of the file, and NewService(password, ttl, store)
InitAuth ==
    /\ RetryIdle
    /\ policy = CHOOSE p \in Policies : p.MaxAttempts = 0
    /\ NoWebhook
    /\ split = NoSplit
    /\ store = NoStore
    /\ bot = NoBot
    /\ chat = <<>>
    /\ mu = NoMutex
    /\ \E impl \in Impls, ttl \in 0..MaxTTL, saved \in SUBSET AuthUsers,
          at \in (0..MaxTTL) \cup {ZeroTime} :
           auth = [impl |-> impl, ttl |-> ttl, now |-> 0,
                   sessions |-> [user \in saved |-> [ExpiresAt |-> at]],
                   last |-> NoAuthCall]

AuthCall(op, user, ok) ==
    [op |-> op, user |-> user, at |-> auth.now, before |-> auth.sessions, ok |-> ok]

\* func (s *Service) Login: the password is the right one, or it is not
ServiceLogin(user, passwordOK) ==
    /\ auth' = [auth EXCEPT
                   !.sessions = IF passwordOK
                                THEN put(@, user, [ExpiresAt |->
                                                   ExpiresAt(auth.impl, auth.now, auth.ttl)])
                                ELSE @,
                   !.last = AuthCall("Login", user, passwordOK)]
    /\ UNCHANGED authElse

\* func (s *Service) Logout
ServiceLogout(user) ==
    /\ auth' = [auth EXCEPT !.sessions = delete(@, {user}),
                            !.last = AuthCall("Logout", user, TRUE)]
    /\ UNCHANGED authElse

\* func (s *Service) IsAuthorized
ServiceIsAuthorized(user) ==
    LET ok == user \in DOMAIN auth.sessions
        good == ok /\ SessionGood(auth.impl, auth.sessions[user], auth.now, auth.ttl)
    IN  /\ auth' = [auth EXCEPT
                       !.sessions = IF ok /\ ~good THEN delete(@, {user}) ELSE @,
                       !.last = AuthCall("IsAuthorized", user, good)]
        /\ UNCHANGED authElse

\* the clock goes on
AuthTick ==
    /\ auth.now < MaxTime
    /\ auth' = [auth EXCEPT !.now = @ + 1]
    /\ UNCHANGED authElse

NextAuth ==
    \/ \E user \in AuthUsers, passwordOK \in BOOLEAN : ServiceLogin(user, passwordOK)
    \/ \E user \in AuthUsers : ServiceLogout(user)
    \/ \E user \in AuthUsers : ServiceIsAuthorized(user)
    \/ AuthTick

SpecAuth == InitAuth /\ [][NextAuth]_vars

\* C29: with a session TTL of 0 IsAuthorized reports every stored session as
\* authorized and deletes none, also one whose ExpiresAt lies in the past; with a
\* TTL above 0 it reports a session whose ExpiresAt lies in the past as
\* unauthorized and deletes it.
C29_SessionTTL ==
    LET l == auth.last
    IN  (l.op = "IsAuthorized" /\ l.user \in DOMAIN l.before)
        => /\ auth.ttl = 0 => (l.ok /\ auth.sessions = l.before)
           /\ (auth.ttl > 0 /\ l.at > l.before[l.user].ExpiresAt)
              => (~l.ok /\ auth.sessions = Kept(l.before, {l.user}))

-----------------------------------------------------------------------------
(* DialogService.Chat (package llm) over a MemoryDialogStore, with calls   *)
(* of several callers side by side.  A call is three steps: the Get of the *)
(* history, the request to the language model, the Append of the two new   *)
(* messages.  CreatePlan is Chat with a fixed system prompt.                *)

MaxChats == 2

Callers == {1, 2}

NoChat == [pc |-> "idle", id |-> "", err |-> FALSE, n |-> 0]

InitChat ==
    /\ RetryIdle
    /\ policy = CHOOSE p \in Policies : p.MaxAttempts = 0
    /\ NoWebhook
    /\ split = NoSplit
    /\ auth = NoAuth
    /\ mu = NoMutex
    /\ \E ttl \in 0..MaxTTL : store = NewMemoryDialogStore(ttl)
    /\ bot = NoBot
    /\ chat = [c \in Callers |-> NoChat]

\* history, _, err := s.dialogStore.Get(ctx, dialogID)
ChatGet(c, dialogID) ==
    /\ chat[c].pc \in {"idle", "done"}
    /\ chat[c].n < MaxChats
    /\ store' = StoreGet(dialogID)
    /\ chat' = [chat EXCEPT ![c] = [pc |-> "llm", id |-> dialogID, err |-> FALSE, n |-> @.n + 1]]
    /\ UNCHANGED chatElse

\* a changed Chat: the messages are saved whatever the request returned
afterLLMRequest_savesAnyway(ok) == "save"

\* assistantMessage, err := s.doLLMRequest(...); if err != nil { return "", err }
afterLLMRequest(ok) == IF ok THEN "save" ELSE "done"

ChatLLMRequest(c, ok) ==
    /\ chat[c].pc = "llm"
    /\ chat' = [chat EXCEPT ![c].pc = afterLLMRequest(ok), ![c].err = ~ok]
    /\ UNCHANGED <<store, chatElse>>

\* s.dialogStore.Append(ctx, dialogID, newMessages...); return assistantMessage, nil
ChatAppend(c) ==
    /\ chat[c].pc = "save"
    /\ store' = Appended(chat[c].id, <<"user", "assistant">>)
    /\ chat' = [chat EXCEPT ![c].pc = "done"]
    /\ UNCHANGED chatElse

\* the clock goes on while calls are under way
ChatTick ==
    /\ store.now < MaxTime
    /\ store' = [store EXCEPT !.now = @ + 1]
    /\ UNCHANGED <<chat, chatElse>>

NextChat ==
    \/ \E c \in Callers, dialogID \in DialogIDs : ChatGet(c, dialogID)
    \/ \E c \in Callers, ok \in BOOLEAN : ChatLLMRequest(c, ok)
    \/ \E c \in Callers : ChatAppend(c)
    \/ ChatTick

SpecChat == InitChat /\ [][NextChat]_vars

\* the history the store holds for each dialog id, and whether it holds one
Stored(m) ==
    [id \in DialogIDs |->
        IF id \in DOMAIN m THEN [held |-> TRUE, messages |-> m[id].messages]
        ELSE [held |-> FALSE, messages |-> <<>>]]

\* the step of a call in which Chat saves: the user message and the answer are
\* put after what the store holds for the dialog, and no other dialog changes
Saves(c) ==
    /\ chat[c].pc = "save"
    /\ Stored(store'.dialogs) =
          [Stored(store.dialogs) EXCEPT
              ![chat[c].id] = [held |-> TRUE,
                               messages |-> @.messages \o <<"user", "assistant">>]]

\* a call whose request failed returns at once, without the step that saves
FailsAtOnce(c) == (chat'[c].pc = "done" /\ chat'[c].err) => chat[c].pc = "llm"

-----------------------------------------------------------------------------
(* webhook.go: the session map h.state and its mutex h.stateMu *)

(***************************************************************************)
(* The accessors of h.state taken step by step.  A unit (the goroutine of  *)
(* an update, and after it the goroutine that handleSolveRetryCallback     *)
(* starts) makes the calls of its handler one after another: an accessor,  *)
(* which locks h.stateMu, reads the userState of its user, writes it back  *)
(* changed and unlocks when it returns, or a method of a collaborator.     *)
(* Two units at most run side by side.  The users are logged in, the       *)
(* handler has a dialog service, the calls of the bot and of the language  *)
(* model succeed, a callback carries its Message, and the callbacks of     *)
(* GetSolutionVariantsParallel are run one after another.  A userState has *)
(* the fields the handlers below use; a key the map lacks reads as the     *)
(* zero userState, as it does in Go.                                       *)
(***************************************************************************)

\* the units that are started
MaxUnits == 3

\* totalSteps of executeSolveTask, llm.SYSTEM_PROMPT_GROUP_EXPERT being empty
totalSteps == 3

UserIDs == {1, 2}

Units == 1..MaxUnits

Steps == 1..totalSteps

\* the ids of the models of the keyboards
SolveModels == {ModelID(<<"0">>), ModelID(<<"1">>)}

zeroUserState ==
    [pending |-> "", askMode |-> FALSE, askJSONMode |-> FALSE, askJSONContract |-> "",
     dialogMode |-> "", dialogID |-> "", selectedModel |-> "", lastQuestion |-> "",
     lastDialogMessage |-> "", showModelName |-> FALSE,
     solveMode |-> FALSE, solveModel |-> "", solveTask |-> "",
     solveStepMessages |-> [s \in Steps |-> 0],
     solveStepModels |-> [s \in Steps |-> ""]]

\* A call of a unit: an accessor of h.state ("acc") or a method of a
\* collaborator ("call"), made by the handler from, with its arguments: a
\* step, a model or another string (val), a bool, a message id, a task,
\* the action of a retry button and a dialog id.
Op(kind, name, from) ==
    [kind |-> kind, name |-> name, from |-> from, step |-> 0, val |-> "",
     on |-> FALSE, id |-> 0, task |-> "", action |-> "", dialogID |-> ""]

Accessor(name, from) == Op("acc", name, from)

Collaborator(name, from) == Op("call", name, from)

\* handleSolveRetryCallback from the answer to the callback on: the message
\* is edited, and the goroutine runs the step, records its model and edits
\* the message again
retryRun(step, task, model) ==
    <<Collaborator("AnswerCallbackQuery", "handleSolveRetryCallback"),
      Collaborator("EditMessage", "handleSolveRetryCallback"),
      [Collaborator("ExecuteSolutionStep", "handleSolveRetryCallback")
          EXCEPT !.step = step, !.val = model, !.task = task],
      [Accessor("setSolveStepModel", "handleSolveRetryCallback")
          EXCEPT !.step = step, !.val = model],
      Collaborator("EditMessageKeyboard", "handleSolveRetryCallback")>>

\* a changed action "same": the model of the task is taken, whatever model
\* the step has run with
retrySame_solveModel(step, task, previousModel) ==
    <<[Accessor("getSolveModel", "handleSolveRetryCallback")
          EXCEPT !.step = step, !.task = task]>>

\* handleSolveRetryCallback, action "same", after getSolveStepModel: the
\* model the step has run with last, or the model of the task if there is
\* none
retrySame(step, task, previousModel) ==
    IF previousModel = ""
    THEN <<[Accessor("getSolveModel", "handleSolveRetryCallback")
               EXCEPT !.step = step, !.task = task]>>
    ELSE retryRun(step, task, previousModel)

\* handleSolveRetryCallback for the data "<step>:<action>" of a button of
\* buildSolveRetryKeyboard, up to getSolveTask
handleSolveRetryCallback(step, action) ==
    <<[Accessor("getSolveTask", "handleSolveRetryCallback")
          EXCEPT !.step = step, !.action = action]>>

\* the callback of executeSolveTask for the result of a step
solveStepCallback(step, model) ==
    [Accessor("getSolveStepMessage", "executeSolveTask") EXCEPT !.step = step, !.val = model]

\* executeSolveTask with a dialog service: the task is kept, the header and
\* the messages of the steps are sent, the variants are asked for
executeSolveTaskSteps(model, task) ==
    <<[Accessor("setSolveTaskData", "executeSolveTask") EXCEPT !.val = model, !.task = task],
      Collaborator("SendMessage", "reply")>>
    \o [s \in Steps |-> [Collaborator("SendMessage", "executeSolveTask") EXCEPT !.step = s]]
    \o <<[Collaborator("GetSolutionVariantsParallel", "executeSolveTask")
             EXCEPT !.val = model],
         Collaborator("SendMessage", "reply")>>

\* the mode handlers, without their error branches
handleAskCalls(from) ==
    (IF from = "handleAsk" THEN <<Collaborator("IsAuthorized", from)>> ELSE <<>>)
    \o <<Accessor(IF from = "handleDialogMessage" THEN "setLastDialogMessage"
                  ELSE "setLastQuestion", from),
         Accessor("getSelectedModel", from),
         Collaborator("SendMessage", from),
         Collaborator(IF from = "handleDialogMessage" THEN "CreatePlan"
                      ELSE "ChatCompletion", from),
         Accessor("getAndClearShowModelName", from),
         Collaborator("EditMessage", from)>>

\* the updates: a message with a command or a text, a callback query of a
\* button of the keyboard of /solve or of a retry keyboard
UnitCalls(update) ==
    CASE update.kind = "/ask" ->
            <<Accessor("clearPending", "dispatch"),
              Collaborator("IsAuthorized", "handleCommand"),
              [Accessor("setAskMode", "handleCommand") EXCEPT !.on = TRUE],
              [Accessor("setAskJSONMode", "handleCommand") EXCEPT !.on = FALSE],
              Collaborator("SendMessage", "reply")>>
      [] update.kind = "/ask_json" ->
            <<Accessor("clearPending", "dispatch"),
              Collaborator("IsAuthorized", "handleCommand"),
              [Accessor("setAskMode", "handleCommand") EXCEPT !.on = FALSE],
              [Accessor("setAskJSONMode", "handleCommand") EXCEPT !.on = TRUE],
              Collaborator("SendMessage", "reply")>>
      [] update.kind = "text" ->
            <<Accessor("popPending", "dispatch")>>
      [] update.kind = "solve_model" ->
            <<Collaborator("IsAuthorized", "handleCallbackQuery"),
              [Accessor("setSolveModel", "handleSolveModelCallback") EXCEPT !.val = update.model],
              [Accessor("setSolveMode", "handleSolveModelCallback") EXCEPT !.on = TRUE],
              Collaborator("AnswerCallbackQuery", "handleSolveModelCallback"),
              Collaborator("EditMessage", "handleSolveModelCallback"),
              Collaborator("SendMessage", "reply")>>
      [] update.kind = "solve_retry" ->
            <<Collaborator("IsAuthorized", "handleCallbackQuery")>>
            \o handleSolveRetryCallback(update.step, update.action)

\* The body of an accessor, run with h.stateMu held on the userState s that
\* it has read: the userState it writes back, the calls its handler makes
\* next, and the string it returns.  rnd is the model that
\* llm.GetRandomModelExcept draws.
Body(op, s, rnd) ==
    LET ret(s2, next, str) == [s |-> s2, next |-> next, ret |-> str]
    IN  CASE op.name = "clearPending" -> ret([s EXCEPT !.pending = ""], <<>>, "")
          [] op.name = "popPending" ->
                IF s.pending = ""
                THEN ret(s, <<Collaborator("IsAuthorized", "handleText"),
                              Accessor("isSolveMode", "handleText")>>, "")
                ELSE ret([s EXCEPT !.pending = ""],
                         <<Collaborator("Login", "handleLogin"),
                           Collaborator("SendMessage", "reply")>>, s.pending)
          [] op.name = "setAskMode" -> ret([s EXCEPT !.askMode = op.on], <<>>, "")
          [] op.name = "setAskJSONMode" ->
                ret([s EXCEPT !.askJSONMode = op.on,
                              !.askJSONContract = IF op.on THEN op.val ELSE ""], <<>>, "")
          [] op.name = "setDialogMode" ->
                ret([s EXCEPT !.dialogMode = op.val, !.dialogID = op.dialogID,
                              !.lastDialogMessage = ""], <<>>, "")
          [] op.name = "setSelectedModel" -> ret([s EXCEPT !.selectedModel = op.val], <<>>, "")
          [] op.name = "setShowModelName" -> ret([s EXCEPT !.showModelName = op.on], <<>>, "")
          [] op.name = "setLastQuestion" -> ret([s EXCEPT !.lastQuestion = op.val], <<>>, "")
          [] op.name = "setLastDialogMessage" ->
                ret([s EXCEPT !.lastDialogMessage = op.val], <<>>, "")
          [] op.name = "getAndClearShowModelName" ->
                ret([s EXCEPT !.showModelName = FALSE], <<>>,
                    IF s.showModelName THEN "true" ELSE "")
          [] op.name = "setSolveMode" -> ret([s EXCEPT !.solveMode = op.on], <<>>, "")
          [] op.name = "setSolveModel" -> ret([s EXCEPT !.solveModel = op.val], <<>>, "")
          [] op.name = "isSolveMode" ->
                ret(s, IF s.solveMode
                       THEN <<Accessor("getSolveModel", "handleSolveTask")>>
                       ELSE <<Accessor("getDialogState", "handleText")>>, "")
          [] op.name = "getDialogState" ->
                ret(s, IF s.dialogMode # "" THEN handleAskCalls("handleDialogMessage")
                       ELSE <<Accessor("askJSONState", "handleText")>>, s.dialogMode)
          [] op.name = "askJSONState" ->
                ret(s, IF s.askJSONMode THEN handleAskCalls("handleAskJSON")
                       ELSE <<Accessor("isAskMode", "handleText")>>, "")
          [] op.name = "isAskMode" ->
                ret(s, IF s.askMode THEN handleAskCalls("handleAsk")
                       ELSE <<Collaborator("SendMessage", "reply")>>, "")
          [] op.name = "getSelectedModel" -> ret(s, <<>>, s.selectedModel)
          [] op.name = "getSolveModel" ->
                ret(s, IF op.from = "handleSolveTask"
                       THEN <<[Accessor("setSolveMode", "handleSolveTask")
                                  EXCEPT !.on = FALSE]>>
                            \o executeSolveTaskSteps(s.solveModel, "task")
                       ELSE retryRun(op.step, op.task, s.solveModel),
                    s.solveModel)
          [] op.name = "setSolveTaskData" ->
                ret([s EXCEPT !.solveTask = op.task, !.solveModel = op.val,
                              !.solveStepMessages = [st \in Steps |-> 0],
                              !.solveStepModels = [st \in Steps |-> ""]], <<>>, "")
          [] op.name = "setSolveStepMessage" ->
                ret([s EXCEPT !.solveStepMessages[op.step] = op.id], <<>>, "")
          [] op.name = "getSolveStepMessage" ->
                ret(s, <<[Accessor("setSolveStepModel", "executeSolveTask")
                             EXCEPT !.step = op.step, !.val = op.val]>>
                       \o (IF s.solveStepMessages[op.step] # 0
                           THEN <<Collaborator("EditMessageKeyboard", "executeSolveTask")>>
                           ELSE <<>>), "")
          [] op.name = "setSolveStepModel" ->
                ret([s EXCEPT !.solveStepModels[op.step] = op.val], <<>>, "")
          [] op.name = "getSolveTask" ->
                ret(s, IF s.solveTask = ""
                       THEN <<Collaborator("AnswerCallbackQuery", "handleSolveRetryCallback")>>
                       ELSE <<[Accessor("getSolveStepModel", "handleSolveRetryCallback")
                                  EXCEPT !.step = op.step, !.action = op.action,
                                         !.task = s.solveTask]>>,
                    s.solveTask)
          [] op.name = "getSolveStepModel" ->
                ret(s, IF op.action = "same"
                       THEN retrySame(op.step, op.task, s.solveStepModels[op.step])
                       ELSE retryRun(op.step, op.task, rnd),
                    s.solveStepModels[op.step])

\* the model of step s of GetSolutionStepConfigs(model): the third step has
\* one drawn from llm.AvailableModels, and "" stands for the default model
StepModel(step, model, rnd) ==
    IF step = 3 THEN rnd ELSE IF model = "" THEN "default" ELSE model

\* the calls a handler makes after a method of a collaborator has returned
\* to unit e
Returned(op, e, rnd) ==
    CASE op.name = "SendMessage" /\ op.from = "executeSolveTask" ->
            <<[Accessor("setSolveStepMessage", "executeSolveTask")
                  EXCEPT !.step = op.step, !.id = e]>>
      [] op.name = "GetSolutionVariantsParallel" ->
            [s \in Steps |-> solveStepCallback(s, StepModel(s, op.val, rnd))]
      [] OTHER -> <<>>

\* the fields an accessor sets outright, with the values
Written(op) ==
    CASE op.name = "setAskMode" -> {<<"askMode", op.on>>}
      [] op.name = "setAskJSONMode" -> {<<"askJSONMode", op.on>>}
      [] op.name = "setSolveMode" -> {<<"solveMode", op.on>>}
      [] OTHER -> {}

TrackedFields == {"askMode", "askJSONMode", "solveMode"}

NoUnit ==
    [user |-> 0, at |-> "new", todo |-> <<>>, copy |-> zeroUserState,
     previousModel |-> "", solveModel |-> "", action |-> "", button |-> 0,
     ranStep |-> 0, ranModel |-> "", wrote |-> {}, mode |-> FALSE, slot |-> FALSE,
     popped |-> FALSE]

InitMutex ==
    /\ RetryIdle
    /\ policy = CHOOSE p \in Policies : p.MaxAttempts = 0
    /\ NoWebhook
    /\ split = NoSplit
    /\ store = NoStore
    /\ auth = NoAuth
    /\ bot = NoBot
    /\ chat = <<>>
    /\ mu = [holder |-> 0,
             state |-> [u \in UserIDs |-> zeroUserState],
             units |-> [e \in Units |-> NoUnit],
             last |-> [u \in UserIDs |-> [f \in TrackedFields |-> ""]],
             bare |-> FALSE]

\* the unit e is under way
UnderWay(e) == mu.units[e].at \in {"run", "locked", "copied"}

\* ServeHTTP starts the unit of an update of user u, while one other unit at
\* most is under way
Begin(e, u, update) ==
    /\ mu.units[e].at = "new"
    /\ \A d \in Units : d < e => mu.units[d].at # "new"
    /\ Cardinality({d \in Units : UnderWay(d)}) <= 1
    /\ mu' = [mu EXCEPT !.units[e] =
                 [NoUnit EXCEPT !.user = u, !.at = "run", !.todo = UnitCalls(update),
                                !.action = IF update.kind = "solve_retry"
                                           THEN update.action ELSE "",
                                !.button = IF update.kind = "solve_retry"
                                           THEN update.step ELSE 0]]
    /\ UNCHANGED muElse

\* a changed accessor: the mutex is unlocked when the userState has been
\* read, and the userState is written back later
unlockAt_afterRead(name) == "read"

\* a changed accessor: the mutex is not unlocked
unlockAt_never(name) == "never"

\* defer h.stateMu.Unlock(): the mutex is unlocked when the accessor returns
unlockAt(name) == "return"

\* h.stateMu.Lock() of the accessor unit e calls next: it blocks while
\* another goroutine holds the mutex
Lock(e) ==
    LET unit == mu.units[e]
        op == Head(unit.todo)
    IN  /\ unit.at = "run"
        /\ op.kind = "acc"
        /\ mu.holder = 0
        /\ mu' = [mu EXCEPT
                    !.holder = e,
                    !.units[e].at = "locked",
                    !.last[unit.user] =
                        [f \in TrackedFields |->
                            IF <<f, TRUE>> \in Written(op) THEN "true"
                            ELSE IF <<f, FALSE>> \in Written(op) THEN "false"
                            ELSE @[f]]]
        /\ UNCHANGED muElse

\* the unit after the head of its calls has returned, with next put in
\* front; after the last call the goroutine ends
Continue(unit, op, r) ==
    LET rest == r.next \o Tail(unit.todo)
    IN  IF rest = <<>> THEN [NoUnit EXCEPT !.user = unit.user, !.at = "done",
                                           !.slot = unit.slot,
                                           !.popped = unit.popped]
        ELSE [unit EXCEPT
                !.todo = rest,
                !.at = "run",
                !.previousModel = IF op.name = "getSolveStepModel" THEN r.ret ELSE @,
                !.solveModel = IF op.name = "getSolveModel" THEN r.ret ELSE @,
                !.popped = IF op.name = "popPending" THEN r.ret # "" ELSE @,
                !.wrote = @ \cup { w[1] : w \in Written(op) }]

\* the accessor that unit e has locked the mutex for runs and returns
Unlock(e) ==
    LET unit == mu.units[e]
        op == Head(unit.todo)
        u == unit.user
    IN  /\ unit.at \in {"locked", "copied"}
        /\ \E rnd \in SolveModels :
              /\ op.name = "getSolveStepModel" /\ op.action # "same"
                    => rnd # mu.state[u].solveStepModels[op.step]
              /\ IF unit.at = "copied"
                 THEN LET r == Body(op, unit.copy, rnd)
                      IN  mu' = [mu EXCEPT !.state[u] = r.s,
                                           !.bare = @ \/ mu.holder # e,
                                           !.units[e] = Continue(unit, op, r)]
                 ELSE LET r == Body(op, mu.state[u], rnd)
                      IN  CASE unlockAt(op.name) = "return" ->
                                  mu' = [mu EXCEPT !.state[u] = r.s,
                                                   !.holder = 0,
                                                   !.units[e] = Continue(unit, op, r)]
                            [] unlockAt(op.name) = "read" ->
                                  mu' = [mu EXCEPT !.holder = 0,
                                                   !.units[e].at = "copied",
                                                   !.units[e].copy = mu.state[u]]
                            [] OTHER ->
                                  mu' = [mu EXCEPT !.state[u] = r.s,
                                                   !.units[e] = Continue(unit, op, r)]
        /\ UNCHANGED muElse

\* the unit e calls a method of a collaborator, which returns
Collaborate(e) ==
    LET unit == mu.units[e]
        op == Head(unit.todo)
    IN  /\ unit.at = "run"
        /\ op.kind = "call"
        /\ \E rnd \in SolveModels :
              mu' = [mu EXCEPT !.units[e] =
                        [Continue(unit, op, [next |-> Returned(op, e, rnd), ret |-> ""])
                            EXCEPT !.ranStep = IF op.name = "ExecuteSolutionStep"
                                               THEN op.step ELSE @,
                                   !.ranModel = IF op.name = "ExecuteSolutionStep"
                                                THEN op.val ELSE @,
                                   !.mode = IF op.name = "ExecuteSolutionStep"
                                            THEN mu.state[unit.user].solveMode ELSE @]]
        /\ UNCHANGED muElse

\* the commands /ask and /ask_json of two users
LockUpdates == { [kind |-> k, model |-> "", step |-> 0, action |-> ""] :
                    k \in {"/ask", "/ask_json"} }

NextLock ==
    \/ \E e \in Units, u \in UserIDs, update \in LockUpdates : Begin(e, u, update)
    \/ \E e \in Units : Lock(e)
    \/ \E e \in Units : Unlock(e)
    \/ \E e \in Units : Collaborate(e)

SpecLock == InitMutex /\ [][NextLock]_vars

\* whoever holds the mutex is inside an accessor, between Lock and the return
HeldInAccessor == mu.holder # 0 => mu.units[mu.holder].at = "locked"

\* a unit that is under way can take a step, or waits for a mutex whose
\* holder can
CanStep(e) ==
    \/ mu.units[e].at \in {"locked", "copied"}
    \/ mu.units[e].at = "run"
       /\ (Head(mu.units[e].todo).kind = "call" \/ mu.holder = 0)

\* C22: no goroutine holds h.stateMu while it calls a collaborator (or
\* sleeps): the holder is between the Lock and the return of an accessor;
\* h.state is read and written only by a goroutine that holds the mutex; and
\* no state is a deadlock on the mutex, since a unit that waits for it waits
\* for a holder that can go on.
C22_LockDiscipline ==
    /\ HeldInAccessor
    /\ ~mu.bare
    /\ \A e \in Units :
          UnderWay(e) => CanStep(e) \/ (mu.holder # 0 /\ CanStep(mu.holder))

\* a unit waits for the mutex that another unit holds, which is about to
\* call a collaborator when its accessor has returned
C22_Witness ==
    \E e, d \in Units :
        /\ mu.holder = d /\ e # d
        /\ mu.units[e].at = "run" /\ Head(mu.units[e].todo).kind = "acc"
        /\ Len(mu.units[d].todo) > 1 /\ mu.units[d].todo[2].kind = "call"

\* the value of field f of the userState s, as the history keeps it
FieldText(s, f) == IF s[f] THEN "true" ELSE "false"

\* C23: when no accessor is under way, every field that units have set has
\* the value of the write that locked the mutex last, also when two units
\* of the user have written it side by side; and the entry of a user none
\* of whose units has run is as it was.
C23_LastWriteWins ==
    /\ (mu.holder = 0 /\ \A e \in Units : mu.units[e].at # "copied") =>
          \A u \in UserIDs, f \in TrackedFields :
              mu.last[u][f] # "" => FieldText(mu.state[u], f) = mu.last[u][f]
    /\ \A u \in UserIDs :
          (\A e \in Units : mu.units[e].user # u) => mu.state[u] = zeroUserState

\* two units of a user are under way, both have set askMode, one to true and
\* one to false, and the other user has no unit
C23_Witness ==
    \E e, d \in Units :
        /\ e # d /\ mu.units[e].user = mu.units[d].user
        /\ mu.units[e].at = "run" /\ mu.units[d].at = "run"
        /\ "askMode" \in mu.units[e].wrote /\ "askMode" \in mu.units[d].wrote
        /\ "askJSONMode" \in mu.units[e].wrote /\ "askJSONMode" \in mu.units[d].wrote
        /\ mu.state[mu.units[e].user].askMode = mu.state[mu.units[e].user].askJSONMode

\* the buttons of /solve, the buttons of the retry keyboards of the first and
\* of the last step, and a text
SolveUpdates ==
    { [kind |-> "solve_model", model |-> m, step |-> 0, action |-> ""] : m \in SolveModels }
    \cup { [kind |-> "text", model |-> "", step |-> 0, action |-> ""] }
    \cup { [kind |-> "solve_retry", model |-> "", step |-> s, action |-> a] :
              s \in {1, totalSteps}, a \in {"same", "other"} }

\* the units under way are goroutines that handleSolveRetryCallback has
\* started: the user sends an update when the one before has been processed
RetriesOnly == \A d \in Units : UnderWay(d) => mu.units[d].action # ""

NextSolve ==
    \/ \E e \in Units, update \in SolveUpdates : RetriesOnly /\ Begin(e, 1, update)
    \/ \E e \in Units : Lock(e)
    \/ \E e \in Units : Unlock(e)
    \/ \E e \in Units : Collaborate(e)

\* the handler when user 1 has sent /solve and pressed a button of its
\* keyboard, or has not
InitSolve ==
    /\ RetryIdle
    /\ policy = CHOOSE p \in Policies : p.MaxAttempts = 0
    /\ NoWebhook
    /\ split = NoSplit
    /\ store = NoStore
    /\ auth = NoAuth
    /\ bot = NoBot
    /\ chat = <<>>
    /\ \E s \in {zeroUserState}
                \cup { [zeroUserState EXCEPT !.solveMode = TRUE, !.solveModel = m] :
                          m \in SolveModels } :
          mu = [holder |-> 0,
                state |-> [u \in UserIDs |-> IF u = 1 THEN s ELSE zeroUserState],
                units |-> [e \in Units |-> NoUnit],
                last |-> [u \in UserIDs |-> [f \in TrackedFields |-> ""]],
                bare |-> FALSE]

SpecSolve == InitSolve /\ [][NextSolve]_vars

\* the accessor that returns in this step
Returning(e, name) ==
    /\ mu.units[e].at = "locked"
    /\ mu'.units[e].at # "locked"
    /\ Head(mu.units[e].todo).name = name

\* the task and the entries of the steps are taken away by nothing but the
\* setSolveTaskData of a task that is submitted
Retained(u) ==
    /\ mu.state[u].solveTask # "" => mu'.state[u].solveTask # ""
    /\ \A s \in Steps :
          \/ mu.state[u].solveStepModels[s] # "" /\ mu'.state[u].solveStepModels[s] = ""
          \/ mu.state[u].solveStepMessages[s] # 0 /\ mu'.state[u].solveStepMessages[s] = 0
          => \E e \in Units : mu.units[e].user = u /\ Returning(e, "setSolveTaskData")

\* setSolveMode(false) of handleSolveTask switches the mode off and leaves
\* the rest of the userState alone
SwitchedOff(e) ==
    Returning(e, "setSolveMode") /\ Head(mu.units[e].todo).from = "handleSolveTask" =>
        mu'.state[mu.units[e].user] =
            [mu.state[mu.units[e].user] EXCEPT !.solveMode = FALSE]

\* getSolveStepModel returns the model that is kept for the step of the button
ReadsStep(e) ==
    Returning(e, "getSolveStepModel") =>
        mu'.units[e].previousModel =
            mu.state[mu.units[e].user].solveStepModels[mu.units[e].button]

\* C21: when the text of a task is submitted, solveMode is switched off and
\* nothing else of the userState is changed by that; the task, the model of
\* a step and the message id of a step are taken away only when a new task is
\* submitted; and the action "same" of a retry button of step s runs step s
\* with the model kept for step s when the button was pressed, or with the
\* model of the task if none is kept, whether solveMode is on or off.
C21_SolveBookkeeping ==
    /\ [][\A u \in UserIDs : Retained(u)]_vars
    /\ [][\A e \in Units : SwitchedOff(e) /\ ReadsStep(e)]_vars
    /\ [](\A e \in Units :
            (mu.units[e].ranStep # 0 /\ mu.units[e].action = "same") =>
                /\ mu.units[e].ranStep = mu.units[e].button
                /\ mu.units[e].ranModel =
                      IF mu.units[e].previousModel # "" THEN mu.units[e].previousModel
                      ELSE mu.units[e].solveModel)

\* a step was run again by the action "same" with the model kept for it,
\* while the user was waiting in solveMode for the text of a new task
C21_Witness ==
    \E e \in Units :
        /\ mu.units[e].ranStep # 0 /\ mu.units[e].action = "same"
        /\ mu.units[e].previousModel # ""
        /\ mu.units[e].ranModel = mu.units[e].previousModel
        /\ mu.units[e].mode
        /\ mu.state[1].solveTask # ""


-----------------------------------------------------------------------------
(* webhook.go: the slots of h.sem and the requests of the units *)

(***************************************************************************)
(* The units of the section above with the slot each of them takes in      *)
(* acquireSlot and gives back in the deferred releaseSlot of the goroutine *)
(* of processAsync or processCallbackAsync, when its handler has returned. *)
(* A unit whose next call is a method of a collaborator is in that call    *)
(* until Collaborate lets it return.  The user is in the ask mode and has  *)
(* had a task solved, so that the retry keyboards of its steps are there   *)
(* to be pressed.                                                          *)
(***************************************************************************)

\* the buttons "same" of the retry keyboards of the first and of the last
\* step, and a text
SlotUpdates ==
    { [kind |-> "text", model |-> "", step |-> 0, action |-> ""] }
    \cup { [kind |-> "solve_retry", model |-> "", step |-> s, action |-> "same"] :
              s \in {1, totalSteps} }

\* the userState after /solve, a button of its keyboard, a task whose steps
\* have been answered, and /ask
SolvedState(m) ==
    [zeroUserState EXCEPT !.askMode = TRUE, !.solveModel = m, !.solveTask = "task",
                          !.solveStepMessages = [s \in Steps |-> s],
                          !.solveStepModels = [s \in Steps |-> m]]

InitSlots ==
    /\ RetryIdle
    /\ policy = CHOOSE p \in Policies : p.MaxAttempts = 0
    /\ semCap \in { NewWebhookHandler(m) : m \in 1..MaxWorkersMax }
    /\ sem = 0
    /\ sendq = <<>>
    /\ arrived = 0
    /\ upd = <<>>
    /\ upc = <<>>
    /\ todo = <<>>
    /\ state = <<>>
    /\ sessions = {}
    /\ hist = <<>>
    /\ crashed = FALSE
    /\ dialogs = {}
    /\ clock = 0
    /\ dialogService = TRUE
    /\ animations = {}
    /\ expired = {}
    /\ split = NoSplit
    /\ store = NoStore
    /\ auth = NoAuth
    /\ bot = NoBot
    /\ chat = <<>>
    /\ \E m \in SolveModels :
          mu = [holder |-> 0,
                state |-> [u \in UserIDs |-> IF u = 1 THEN SolvedState(m)
                                             ELSE zeroUserState],
                units |-> [e \in Units |-> NoUnit],
                last |-> [u \in UserIDs |-> [f \in TrackedFields |-> ""]],
                bare |-> FALSE]

\* what the steps of the units leave alone but for len(h.sem)
slotElse == <<retryVars, semCap, sendq, arrived, upd, upc, todo, state, sessions,
              hist, crashed, modeVars, split, store, auth, chat, bot>>

\* acquireSlot: h.sem <- struct{}{} goes through while a slot is free, and
\* the goroutine of the update is started
Admit(e, u, update) ==
    /\ mu.units[e].at = "new"
    /\ \A d \in Units : d < e => mu.units[d].at # "new"
    /\ sem < semCap
    /\ sem' = sem + 1
    /\ mu' = [mu EXCEPT !.units[e] =
                 [NoUnit EXCEPT !.user = u, !.at = "run", !.todo = UnitCalls(update),
                                !.slot = TRUE,
                                !.action = IF update.kind = "solve_retry"
                                           THEN update.action ELSE "",
                                !.button = IF update.kind = "solve_retry"
                                           THEN update.step ELSE 0]]
    /\ UNCHANGED slotElse

\* the calls that are left are those of the goroutine that
\* handleSolveRetryCallback has started with its go statement
InGoroutine(unit) ==
    /\ unit.todo # <<>>
    /\ Head(unit.todo).from = "handleSolveRetryCallback"
    /\ Head(unit.todo).name \in {"ExecuteSolutionStep", "setSolveStepModel",
                                 "EditMessageKeyboard"}

\* the handler of the unit has returned
HandlerReturned(unit) == unit.at = "done" \/ (unit.at = "run" /\ InGoroutine(unit))

\* defer h.releaseSlot() of the goroutine of the update, run when the
\* handler has returned
ReleaseSlot(e) ==
    /\ mu.units[e].slot
    /\ HandlerReturned(mu.units[e])
    /\ sem' = sem - 1
    /\ mu' = [mu EXCEPT !.units[e].slot = FALSE]
    /\ UNCHANGED slotElse

NextSlots ==
    \/ \E e \in Units, update \in SlotUpdates : Admit(e, 1, update)
    \/ \E e \in Units : Lock(e)
    \/ \E e \in Units : Unlock(e)
    \/ \E e \in Units : Collaborate(e)
    \/ \E e \in Units : ReleaseSlot(e)

SpecSlots == InitSlots /\ [][NextSlots]_vars

\* the requests of the language model and of the dialog service
SlotRequests == {"ChatCompletion", "CreatePlan", "GetSolutionVariantsParallel",
                 "ExecuteSolutionStep"}

\* unit e is in a request of the language model or of the dialog service
InFlight(e) ==
    /\ mu.units[e].at = "run"
    /\ Head(mu.units[e].todo).kind = "call"
    /\ Head(mu.units[e].todo).name \in SlotRequests

\* C36: a unit that is in a request of the language model or of the dialog
\* service holds its slot of h.sem, so that the units in such requests are
\* never more than cap(h.sem).
C36_RequestsWithinSlots ==
    /\ \A e \in Units : InFlight(e) => mu.units[e].slot
    /\ Cardinality({ e \in Units : InFlight(e) }) <= semCap

\* the part of C36 that the code meets: the slots taken are never more than
\* cap(h.sem), they are those of the units that hold one, and a request
\* that a handler makes itself is made with the slot held
C36_HandlerRequestsWithinSlots ==
    /\ sem <= semCap
    /\ sem = Cardinality({ e \in Units : mu.units[e].slot })
    /\ \A e \in Units :
          (InFlight(e) /\ ~InGoroutine(mu.units[e])) => mu.units[e].slot


-----------------------------------------------------------------------------
(* webhook.go: popPending of texts that are processed side by side *)

\* a text
PendingUpdates == { [kind |-> "text", model |-> "", step |-> 0, action |-> ""] }

\* the handler after the users have sent /login without a password, in the
\* ask mode or in no mode
InitPending ==
    /\ RetryIdle
    /\ policy = CHOOSE p \in Policies : p.MaxAttempts = 0
    /\ NoWebhook
    /\ split = NoSplit
    /\ store = NoStore
    /\ auth = NoAuth
    /\ bot = NoBot
    /\ chat = <<>>
    /\ \E ask \in [UserIDs -> BOOLEAN] :
          mu = [holder |-> 0,
                state |-> [u \in UserIDs |->
                             [zeroUserState EXCEPT !.pending = pendingCommandLogin,
                                                   !.askMode = ask[u]]],
                units |-> [e \in Units |-> NoUnit],
                last |-> [u \in UserIDs |-> [f \in TrackedFields |-> ""]],
                bare |-> FALSE]

NextPending ==
    \/ \E e \in Units, u \in UserIDs, update \in PendingUpdates : Begin(e, u, update)
    \/ \E e \in Units : Lock(e)
    \/ \E e \in Units : Unlock(e)
    \/ \E e \in Units : Collaborate(e)

SpecPending == InitPending /\ [][NextPending]_vars

\* the units of user u whose popPending has returned true
Poppers(u) == { e \in Units : mu.units[e].user = u /\ mu.units[e].popped }

\* the units of user u whose popPending has returned
Popped(u) ==
    { e \in Units : /\ mu.units[e].user = u
                    /\ \/ mu.units[e].at = "done"
                       \/ /\ mu.units[e].at \in {"run", "locked"}
                          /\ Head(mu.units[e].todo).name # "popPending" }

\* C37: of the texts of a user who is awaiting the password, also when they
\* are processed side by side, exactly one has popPending return true and
\* is handled by handlePending; every other one goes to handleText, which
\* routes it by the mode.
C37_OnePendingConsumer ==
    /\ [](\A u \in UserIDs :
            /\ Popped(u) # {} => Cardinality(Poppers(u)) = 1
            /\ Poppers(u) \subseteq Popped(u)
            /\ \A e \in Units :
                  (mu.units[e].user = u /\ mu.units[e].at = "run"
                   /\ Head(mu.units[e].todo).name = "ChatCompletion")
                  => (e \notin Poppers(u) /\ mu.state[u].askMode))
    /\ [][\A e \in Units :
            Returning(e, "popPending") =>
                LET next == Head(mu'.units[e].todo)
                IN  IF mu'.units[e].popped
                    THEN next.name = "Login" /\ next.from = "handleLogin"
                    ELSE next.name = "IsAuthorized" /\ next.from = "handleText"]_vars

\* two texts of a user were under way before either had called popPending;
\* one is with handleLogin, the other with handleAsk
C37_Witness ==
    \E e, d \in Units :
        /\ e # d /\ mu.units[e].user = mu.units[d].user
        /\ mu.units[e].at = "run" /\ mu.units[d].at = "run"
        /\ mu.units[e].popped /\ Head(mu.units[e].todo).name = "Login"
        /\ ~mu.units[d].popped /\ Head(mu.units[d].todo).name = "ChatCompletion"


-----------------------------------------------------------------------------
(* DialogService.Chat and DialogService.ReplayCreatePlan (package llm) on  *)
(* one MemoryDialogStore, with calls of several callers side by side.  A   *)
(* message is its role and its content; the content of the messages of a   *)
(* call is the caller with the number of the call.  ReplayCreatePlan is    *)
(* three steps: the Get of the history, the request to the language model, *)
(* the Set of the history it has read with the last answer replaced.       *)

Message(role, c) == [Role |-> role, Content |-> <<c, chat[c].n>>]

NoReplay == [op |-> "", pc |-> "idle", id |-> "", err |-> FALSE, n |-> 0, history |-> <<>>]

InitReplay ==
    /\ RetryIdle
    /\ policy = CHOOSE p \in Policies : p.MaxAttempts = 0
    /\ NoWebhook
    /\ split = NoSplit
    /\ auth = NoAuth
    /\ mu = NoMutex
    /\ \E ttl \in 0..MaxTTL : store = NewMemoryDialogStore(ttl)
    /\ bot = NoBot
    /\ chat = [c \in Callers |-> NoReplay]

\* the index of the last message of the assistant in history, 0 if there is
\* none (lastAssistantIdx + 1)
RECURSIVE lastAssistantIdx(_)
lastAssistantIdx(history) ==
    IF history = <<>> THEN 0
    ELSE IF history[Len(history)].Role = "assistant" THEN Len(history)
    ELSE lastAssistantIdx(SubSeq(history, 1, Len(history) - 1))

\* history, found, err := s.dialogStore.Get(ctx, dialogID) of Chat ("Chat")
\* and of ReplayCreatePlan ("Replay"), which returns an error if the dialog
\* is not found or empty
DialogGet(c, op, dialogID) ==
    LET found == StoreGet(dialogID).last.found
        history == IF found THEN store.dialogs[dialogID].messages ELSE <<>>
    IN  /\ chat[c].pc \in {"idle", "done"}
        /\ chat[c].n < MaxChats
        /\ store' = StoreGet(dialogID)
        /\ chat' = [chat EXCEPT ![c] =
                       [op |-> op, id |-> dialogID, n |-> @.n + 1, history |-> history,
                        pc |-> IF op = "Replay" /\ history = <<>> THEN "done" ELSE "llm",
                        err |-> op = "Replay" /\ history = <<>>]]
        /\ UNCHANGED chatElse

\* if lastAssistantIdx >= 0 { ... s.dialogStore.Set(ctx, dialogID, history) }
afterReplayRequest(history) == IF lastAssistantIdx(history) >= 1 THEN "set" ELSE "done"

\* assistantMessage, err := s.doLLMRequest(ctx, model, messages)
DialogLLMRequest(c, ok) ==
    /\ chat[c].pc = "llm"
    /\ chat' = [chat EXCEPT
                  ![c].pc = IF chat[c].op = "Chat" THEN afterLLMRequest(ok)
                            ELSE IF ok THEN afterReplayRequest(chat[c].history)
                            ELSE "done",
                  ![c].err = ~ok]
    /\ UNCHANGED <<store, chatElse>>

\* Chat: s.dialogStore.Append(ctx, dialogID, newMessages...)
DialogAppend(c) ==
    /\ chat[c].pc = "save"
    /\ store' = Appended(chat[c].id, <<Message("user", c), Message("assistant", c)>>)
    /\ chat' = [chat EXCEPT ![c].pc = "done"]
    /\ UNCHANGED chatElse

\* ReplayCreatePlan: history[lastAssistantIdx].Content = assistantMessage;
\* s.dialogStore.Set(ctx, dialogID, history)
DialogSet(c) ==
    LET idx == lastAssistantIdx(chat[c].history)
        history == IF idx >= 1
                   THEN [chat[c].history EXCEPT ![idx].Content = <<c, chat[c].n>>]
                   ELSE chat[c].history
    IN  /\ chat[c].pc = "set"
        /\ store' = [store EXCEPT
                        !.dialogs = put(@, chat[c].id,
                                        [messages |-> history, lastTouched |-> store.now]),
                        !.called[chat[c].id] = store.now,
                        !.last = StoreCall("Set", chat[c].id, store.now,
                                           chat[c].id \in DOMAIN store.dialogs, 0)]
        /\ chat' = [chat EXCEPT ![c].pc = "done"]
        /\ UNCHANGED chatElse

\* ClearDialog: s.dialogStore.Delete(ctx, dialogID)
DialogClear(dialogID) ==
    /\ dialogID \in DOMAIN store.dialogs
    /\ store' = [store EXCEPT
                    !.dialogs = delete(@, {dialogID}),
                    !.last = StoreCall("Delete", dialogID, store.now, TRUE, 0)]
    /\ UNCHANGED <<chat, chatElse>>

\* the dialog of the user, whose id is kept in the userState
ReplayIDs == {"d1"}

NextReplay ==
    \/ \E c \in Callers, op \in {"Chat", "Replay"}, dialogID \in ReplayIDs :
          DialogGet(c, op, dialogID)
    \/ \E c \in Callers, ok \in BOOLEAN : DialogLLMRequest(c, ok)
    \/ \E c \in Callers : DialogAppend(c)
    \/ \E c \in Callers : DialogSet(c)
    \/ \E dialogID \in ReplayIDs : DialogClear(dialogID)
    \/ ChatTick

SpecReplay == InitReplay /\ [][NextReplay]_vars

\* the messages of the user that the store holds for the dialog
UserMessages(m, dialogID) ==
    IF dialogID \in DOMAIN m
    THEN { m[dialogID].messages[i] :
             i \in { j \in 1..Len(m[dialogID].messages) :
                        m[dialogID].messages[j].Role = "user" } }
    ELSE {}

\* the step removes the dialog: a ClearDialog, or a Get that finds it
\* older than the ttl
Removes(dialogID) ==
    /\ dialogID \in DOMAIN store.dialogs
    /\ dialogID \notin DOMAIN store'.dialogs
    /\ store'.last.id = dialogID
    /\ \/ store'.last.op = "Delete"
       \/ /\ store'.last.op = "Get"
          /\ store.ttl > 0
          /\ store.now - store.dialogs[dialogID].lastTouched > store.ttl

\* C38: the pair of messages that a Chat or CreatePlan has appended to the
\* history of a dialog leaves it only with a ClearDialog or with the expiry
\* of the dialog; the Set of a ReplayCreatePlan that runs side by side with
\* the Chat does not take it away.
C38_PairKept ==
    [][\A dialogID \in DialogIDs :
          UserMessages(store.dialogs, dialogID) \subseteq UserMessages(store'.dialogs, dialogID)
          \/ Removes(dialogID)]_vars

\* the part of C38 that the code meets: nothing but ClearDialog, the expiry
\* and the Set of ReplayCreatePlan takes a message of the user away, and the
\* Set leaves the dialog with the messages of the user that its Get has read
C38_PairKeptButReplay ==
    [][\A dialogID \in DialogIDs :
          \/ UserMessages(store.dialogs, dialogID) \subseteq UserMessages(store'.dialogs, dialogID)
          \/ Removes(dialogID)
          \/ \E c \in Callers :
                /\ chat[c].pc = "set" /\ chat'[c].pc = "done" /\ chat[c].id = dialogID
                /\ UserMessages(store'.dialogs, dialogID) =
                      { chat[c].history[i] :
                          i \in { j \in 1..Len(chat[c].history) :
                                     chat[c].history[j].Role = "user" } }]_vars

-----------------------------------------------------------------------------
(* webhook.go: sendThinkingAnimation and the last edit of the handler.  The *)
(* thinking message lives at Telegram; an editMessageText request that a    *)
(* call of EditMessage has sent is on the wire until Telegram applies it or *)
(* turns it down.  A request is the kind of its text ("frame" for a state   *)
(* of the animation, "final" for the answer or the error text) and, for a   *)
(* frame, the index of the state.  The goroutine of the animation and the   *)
(* handler are two goroutines; cancelAnimation cancels the context of the   *)
(* goroutine and returns at once.                                           *)

\* the ticks of the ticker that the goroutine of an animation takes
MaxTicks == 3

\* len(states) in the goroutine of sendThinkingAnimation
NStates == 4

\* the handlers that show the animation while they wait for the answer
AnimationHandlers == {"handleAsk", "handleAskJSON", "handleDialogMessage"}

\* how the wait of a handler ends: with the answer, with an error that
\* handleRetryableLLMError turns into the retry keyboard, with another error,
\* or (handleDialogMessage) at once with an unknown mode
AnimationOutcomes(from) ==
    {"answer", "retry", "error"} \cup
        (IF from = "handleDialogMessage" THEN {"unknown_mode"} ELSE {})

Frame(n) == [kind |-> "frame", i |-> n]
FinalText == [kind |-> "final", i |-> 0]

InitAnimation ==
    /\ RetryIdle
    /\ policy = CHOOSE p \in Policies : p.MaxAttempts = 0
    /\ NoWebhook
    /\ split = NoSplit
    /\ store = NoStore
    /\ auth = NoAuth
    /\ chat = <<>>
    /\ mu = NoMutex
    /\ \E from \in AnimationHandlers : bot = [NoBot EXCEPT !.from = from]

\* sendThinkingAnimation: SendMessage of states[0]; with an error of
\* SendMessage the handler replies and returns, else the context of the
\* goroutine is made, the goroutine is started, and the handler goes on to
\* its request (the unknown mode of handleDialogMessage goes to the cancel)
StartAnimation(ok) ==
    /\ bot.pc = "idle"
    /\ bot' = IF ok
              THEN [bot EXCEPT !.pc = "wait", !.ctx = TRUE, !.go = "select",
                               !.i = 0, !.text = Frame(0)]
              ELSE [bot EXCEPT !.pc = "done"]
    /\ UNCHANGED botElse

\* the goroutine at its select takes case <-ticker.C (when ctx.Done() is
\* ready too, select takes either case): the next state, and EditMessage
\* with the context of the goroutine.  With a live context the request is
\* sent; with a cancelled one httpClient.Do returns the error of the context
\* and the goroutine returns.
AnimationTick ==
    /\ bot.go = "select"
    /\ bot.ticks < MaxTicks
    /\ LET n == (bot.i + 1) % NStates
       IN  bot' = IF bot.ctx
                  THEN [bot EXCEPT !.i = n, !.ticks = @ + 1, !.go = "do",
                                   !.wire = @ \cup {Frame(n)}]
                  ELSE [bot EXCEPT !.i = n, !.ticks = @ + 1, !.go = "gone"]
    /\ UNCHANGED botElse

\* the goroutine at its select takes case <-ctx.Done()
AnimationDone ==
    /\ bot.go = "select"
    /\ ~bot.ctx
    /\ bot' = [bot EXCEPT !.go = "gone"]
    /\ UNCHANGED botElse

\* httpClient.Do of the goroutine returns with the error of its context,
\* which has been cancelled while the request was under way; what has been
\* sent stays on the wire
AnimationAbandon ==
    /\ bot.go = "do"
    /\ ~bot.ctx
    /\ bot' = [bot EXCEPT !.go = "gone"]
    /\ UNCHANGED botElse

\* Telegram serves a request for the thinking message: it applies the edit
\* and answers 200, or it turns the request down (a status >= 300).  The
\* goroutine goes back to its select after a 200 and returns after an
\* error; the handler drops the error of its last edit (after the error of
\* EditMessageKeyboard it sends the text as a new message).
TelegramServe(req, ok) ==
    /\ req \in bot.wire
    /\ bot' = [bot EXCEPT
                  !.wire = @ \ {req},
                  !.text = IF ok THEN req ELSE @,
                  !.final = IF ok /\ req.kind = "final" THEN TRUE ELSE @,
                  !.go = IF req.kind = "frame" /\ @ = "do"
                         THEN (IF ok THEN "select" ELSE "gone") ELSE @,
                  !.pc = IF req.kind = "final" THEN "done" ELSE @]
    /\ UNCHANGED botElse

\* ChatCompletion, ChatCompletionJSON or CreatePlan returns
RequestReturns(outcome) ==
    /\ bot.pc = "wait"
    /\ outcome \in AnimationOutcomes(bot.from)
    /\ bot' = [bot EXCEPT !.pc = "cancel", !.outcome = outcome]
    /\ UNCHANGED botElse

\* cancelAnimation() of the handler: the context of the goroutine is
\* cancelled, and the call returns
cancelAnimation ==
    /\ bot.pc = "cancel"
    /\ bot' = [bot EXCEPT !.pc = "edit", !.ctx = FALSE]
    /\ UNCHANGED botElse

\* the last edit of the handler, with the context of the handler:
\* EditMessage of the answer or of the error text, or EditMessageKeyboard of
\* handleRetryableLLMError
FinalEdit ==
    /\ bot.pc = "edit"
    /\ bot' = [bot EXCEPT !.pc = "sent", !.wire = @ \cup {FinalText}]
    /\ UNCHANGED botElse

NextAnimation ==
    \/ \E ok \in BOOLEAN : StartAnimation(ok)
    \/ AnimationTick
    \/ AnimationDone
    \/ AnimationAbandon
    \/ \E req \in bot.wire, ok \in BOOLEAN : TelegramServe(req, ok)
    \/ \E outcome \in {"answer", "retry", "error", "unknown_mode"} : RequestReturns(outcome)
    \/ cancelAnimation
    \/ FinalEdit

SpecAnimation == InitAnimation /\ [][NextAnimation]_vars

\* C39: once the handler has its answer or its error text and Telegram has
\* applied the edit with it, the text of the thinking message is that final
\* text: no state of the animation is applied after the last edit.
C39_FinalEditLast == bot.final => bot.text = FinalText

\* the part of C39 that the code meets: after cancelAnimation has returned
\* the goroutine sends no further state of the animation, so that at most
\* the one request that was under way at the cancel can follow the last edit
C39_NoFrameSentAfterCancel ==
    [][/\ (bot.pc \in {"edit", "sent", "done"} /\ bot.go # "none")
            => bot'.wire \ {FinalText} \subseteq bot.wire
       /\ Cardinality(bot.wire \ {FinalText}) <= 1]_vars


-----------------------------------------------------------------------------
(* webhook.go: the setters of the session map, as the handlers call them.  *)
(* A unit is the calls of one handler to the setters, in their order; the  *)
(* other calls of the handler are left out.                                *)

\* the units of the setters that are started
SetterUnits == 2

\* the handlers: the commands /ask, /ask_json, /end and /create_plan, a
\* question (handleAsk), a button of the keyboard of /model, a button of the
\* keyboard of /solve, and the task of /solve
SetterUpdates ==
    { [kind |-> k, model |-> "", step |-> 0, action |-> ""] :
         k \in {"/ask", "/ask_json", "/end", "/create_plan", "question", "task"} }
    \cup { [kind |-> k, model |-> m, step |-> 0, action |-> ""] :
              k \in {"model", "solve_model"}, m \in SolveModels }

\* the setters that the handler of an update of unit e calls
SetterCalls(update, e) ==
    CASE update.kind = "/ask" ->
            <<[Accessor("setAskMode", "handleCommand") EXCEPT !.on = TRUE],
              [Accessor("setAskJSONMode", "handleCommand") EXCEPT !.on = FALSE]>>
      [] update.kind = "/ask_json" ->
            <<[Accessor("setAskMode", "handleCommand") EXCEPT !.on = FALSE],
              [Accessor("setAskJSONMode", "handleCommand")
                  EXCEPT !.on = TRUE, !.val = "contract"]>>
      [] update.kind = "/end" ->
            <<[Accessor("setAskMode", "handleCommand") EXCEPT !.on = FALSE],
              [Accessor("setAskJSONMode", "handleCommand") EXCEPT !.on = FALSE],
              [Accessor("setSolveMode", "handleCommand") EXCEPT !.on = FALSE]>>
      [] update.kind = "/create_plan" ->
            <<[Accessor("setDialogMode", "handleCreatePlanCommand")
                  EXCEPT !.val = dialogModeCreatePlan,
                         !.dialogID = IF e % 2 = 1 THEN "d1" ELSE "d2"]>>
      [] update.kind = "question" ->
            <<[Accessor("setLastQuestion", "handleAsk") EXCEPT !.val = "question"]>>
      [] update.kind = "model" ->
            <<[Accessor("setSelectedModel", "handleModelCallback") EXCEPT !.val = update.model],
              [Accessor("setShowModelName", "handleModelCallback") EXCEPT !.on = TRUE]>>
      [] update.kind = "solve_model" ->
            <<[Accessor("setSolveModel", "handleSolveModelCallback") EXCEPT !.val = update.model],
              [Accessor("setSolveMode", "handleSolveModelCallback") EXCEPT !.on = TRUE]>>
      [] update.kind = "task" ->
            <<[Accessor("setSolveMode", "handleSolveTask") EXCEPT !.on = FALSE]>>

\* ServeHTTP starts the unit of an update of user u, while one other unit at
\* most is under way
BeginSetters(e, u, update) ==
    /\ mu.units[e].at = "new"
    /\ \A d \in Units : d < e => mu.units[d].at # "new"
    /\ Cardinality({d \in Units : UnderWay(d)}) <= 1
    /\ mu' = [mu EXCEPT !.units[e] =
                 [NoUnit EXCEPT !.user = u, !.at = "run",
                                !.todo = SetterCalls(update, e)]]
    /\ UNCHANGED muElse

NextSetters ==
    \/ \E e \in 1..SetterUnits, u \in UserIDs, update \in SetterUpdates :
          BeginSetters(e, u, update)
    \/ \E e \in Units : Lock(e)
    \/ \E e \in Units : Unlock(e)

SpecSetters == InitMutex /\ [][NextSetters]_vars

\* the fields of the userState that a setter is to change
SetterFields(name) ==
    CASE name = "setAskMode" -> {"askMode"}
      [] name = "setAskJSONMode" -> {"askJSONMode", "askJSONContract"}
      [] name = "setSelectedModel" -> {"selectedModel"}
      [] name = "setLastQuestion" -> {"lastQuestion"}
      [] name = "setDialogMode" -> {"dialogMode", "dialogID", "lastDialogMessage"}
      [] name = "setSolveMode" -> {"solveMode"}
      [] name = "setSolveModel" -> {"solveModel"}
      [] name = "setShowModelName" -> {"showModelName"}

\* the value that the call op of a setter gives to the field f
SetterValue(op, f) ==
    CASE f \in {"askMode", "askJSONMode", "solveMode", "showModelName"} -> op.on
      [] f = "askJSONContract" -> IF op.on THEN op.val ELSE ""
      [] f \in {"selectedModel", "lastQuestion", "dialogMode", "solveModel"} -> op.val
      [] f = "dialogID" -> op.dialogID
      [] f = "lastDialogMessage" -> ""

\* the setter of unit e writes the entry back in this step
WritesBack(e) ==
    /\ mu.units[e].at \in {"locked", "copied"}
    /\ mu'.units[e].at \notin {"locked", "copied"}

\* C40: a setter changes its own fields of the entry of its user, to the
\* values of its arguments, and leaves the other fields of the entry and the
\* entries of the other users as they are; nothing else changes the map.
\* So the writes of two units to different fields of one user both stay.
C40_SetterFrame ==
    [][/\ \A e \in Units :
             WritesBack(e) =>
                LET op == Head(mu.units[e].todo)
                    u == mu.units[e].user
                IN  /\ \A f \in SetterFields(op.name) :
                          mu'.state[u][f] = SetterValue(op, f)
                    /\ \A f \in DOMAIN zeroUserState \ SetterFields(op.name) :
                          mu'.state[u][f] = mu.state[u][f]
                    /\ \A v \in UserIDs \ {u} : mu'.state[v] = mu.state[v]
       /\ mu'.state # mu.state => \E e \in Units : WritesBack(e)]_vars

\* two units of one user side by side: one is inside setLastQuestion or
\* setDialogMode, the other is between its setAskMode, which the entry
\* shows, and its setAskJSONMode
C40_Witness ==
    \E e, d \in Units :
        /\ e # d /\ mu.units[e].user = mu.units[d].user
        /\ mu.units[e].at = "locked"
        /\ Head(mu.units[e].todo).name \in {"setLastQuestion", "setDialogMode"}
        /\ mu.units[d].at = "run"
        /\ "askMode" \in mu.units[d].wrote
        /\ Head(mu.units[d].todo).name = "setAskJSONMode"
        /\ mu.state[mu.units[d].user].askMode


=============================================================================
